---- MODULE Spec2Model ----
(***************************************************************************)
(* A model of eml2md: the forward pipeline of src/eml2md.py (extraction,   *)
(* heuristic thread segmentation, SimHash fingerprint, deduplication,      *)
(* Markdown rendering) and the reverse parser of src/read_md_email.py.     *)
(*                                                                         *)
(* Text is a sequence of one-character strings.  Regular expressions are   *)
(* programs of a backtracking matcher whose priorities are those of        *)
(* Python's re: alternatives left to right, greedy repetition longest      *)
(* first, lazy repetition shortest first, the leftmost start wins.         *)
(***************************************************************************)
EXTENDS Integers, Sequences, FiniteSets, TLC

VARIABLES
    subj,   \* a call of _strip_subject_prefixes and a second call on its result
    rcpt,   \* a call of _parse_recipients_list
    fp,     \* two records and their email_feature_hash fingerprints
    dd,     \* a call of deduplicate_emails and a second call on its result
    rend,   \* a call of create_markdown_content
    rt,     \* create_markdown_content followed by parse_emails
    rev,    \* a call of parse_emails on a document
    seg,    \* the heuristic path of process_eml_file
    batch,  \* a batch conversion: main of eml2md.py or convert_files of run_gui.py
    dec,    \* a call of decode_content
    gui     \* a run of GUILauncher.run of gui_launcher.py

vars == <<subj, rcpt, fp, dd, rend, rt, rev, seg, batch, dec, gui>>

Off == [pc |-> "off"]

(***************************************************************************)
(* Characters and Python's str methods                                     *)
(***************************************************************************)

LowerAlpha == <<"a","b","c","d","e","f","g","h","i","j","k","l","m",
                "n","o","p","q","r","s","t","u","v","w","x","y","z">>

UpperAlpha == <<"A","B","C","D","E","F","G","H","I","J","K","L","M",
                "N","O","P","Q","R","S","T","U","V","W","X","Y","Z">>

Digits == <<"0","1","2","3","4","5","6","7","8","9">>

Range(f) == {f[k] : k \in DOMAIN f}

\* str.lower() of one character
ToLower(c) ==
    IF c \in Range(UpperAlpha)
    THEN LowerAlpha[CHOOSE k \in 1..26 : UpperAlpha[k] = c]
    ELSE c

\* str.upper() of one character
ToUpper(c) ==
    IF c \in Range(LowerAlpha)
    THEN UpperAlpha[CHOOSE k \in 1..26 : LowerAlpha[k] = c]
    ELSE c

\* the characters re.IGNORECASE lets a literal c match
CaseSet(c) == {c, ToLower(c), ToUpper(c)}

\* \s of re and the characters str.strip() removes (those the model writes)
Space == {" ", "\t", "\n", "\r", "\f"}

\* \w of re: letters, digits and the underscore
WordChars == Range(LowerAlpha) \cup Range(UpperAlpha) \cup Range(Digits) \cup {"_"}

SetMin(S) == CHOOSE m \in S : \A k \in S : m <= k

SetMax(S) == CHOOSE m \in S : \A k \in S : m >= k

\* s[a:b] of Python, 0 <= a, b <= len(s)
Slice(s, a, b) == SubSeq(s, a + 1, b)

\* str.lstrip(), str.rstrip(), str.strip()
LStrip(s) ==
    LET keep == {k \in 1..Len(s) : s[k] \notin Space}
    IN  IF keep = {} THEN <<>> ELSE SubSeq(s, SetMin(keep), Len(s))

RStrip(s) ==
    LET keep == {k \in 1..Len(s) : s[k] \notin Space}
    IN  IF keep = {} THEN <<>> ELSE SubSeq(s, 1, SetMax(keep))

Strip(s) == LStrip(RStrip(s))

\* the concatenation of a sequence of texts
RECURSIVE Concat(_)
Concat(ss) == IF ss = <<>> THEN <<>> ELSE Head(ss) \o Concat(Tail(ss))

\* sep.join(ss)
RECURSIVE Join(_, _)
Join(sep, ss) ==
    IF ss = <<>> THEN <<>>
    ELSE IF Len(ss) = 1 THEN ss[1]
    ELSE ss[1] \o sep \o Join(sep, Tail(ss))

\* the pieces of s between the characters of the set cs: s.split(c) for a
\* one-character c, re.split(r"[cs]", s) for a class
SplitSet(s, cs) ==
    LET seps == {j \in 1..Len(s) : s[j] \in cs}
        cuts == <<0>> \o [k \in 1..Cardinality(seps) |->
                    CHOOSE j \in seps : Cardinality({h \in seps : h <= j}) = k]
                 \o <<Len(s) + 1>>
    IN  [k \in 1..(Len(cuts) - 1) |-> SubSeq(s, cuts[k] + 1, cuts[k + 1] - 1)]

\* the non-empty texts of a sequence of texts, in order
RECURSIVE NonEmpty(_)
NonEmpty(ss) ==
    IF ss = <<>> THEN <<>>
    ELSE (IF Head(ss) = <<>> THEN <<>> ELSE <<Head(ss)>>) \o NonEmpty(Tail(ss))

(***************************************************************************)
(* The regular-expression matcher                                          *)
(***************************************************************************)

Ins(op, cs, neg, n, x, str) ==
    [op |-> op, cs |-> cs, neg |-> neg, n |-> n, x |-> x, str |-> str]

Chr(cs) == Ins("char", cs, FALSE, 0, 0, <<>>)          \* [cs]
NChr(cs) == Ins("char", cs, TRUE, 0, 0, <<>>)          \* [^cs]
Rep(cs, min) == Ins("rep", cs, FALSE, min, 1, <<>>)     \* [cs]{min,}
NRep(cs, min) == Ins("rep", cs, TRUE, min, 1, <<>>)     \* [^cs]{min,}
RepLazy(cs, min) == Ins("rep", cs, FALSE, min, 0, <<>>) \* [cs]{min,}?
NRepLazy(cs, min) == Ins("rep", cs, TRUE, min, 0, <<>>) \* [^cs]{min,}?
SplitI(x, y) == Ins("split", {}, FALSE, y, x, <<>>)    \* try pc+x, then pc+y
JmpI(x) == Ins("jmp", {}, FALSE, 0, x, <<>>)
SaveI(n) == Ins("save", {}, FALSE, n, 0, <<>>)
MatchI == Ins("match", {}, FALSE, 0, 0, <<>>)
Bos == Ins("bos", {}, FALSE, 0, 0, <<>>)               \* ^
Bol == Ins("bol", {}, FALSE, 0, 0, <<>>)               \* ^ under re.MULTILINE
Eos == Ins("eos", {}, FALSE, 0, 0, <<>>)               \* $
Eol == Ins("eol", {}, FALSE, 0, 0, <<>>)               \* $ under re.MULTILINE
WordB == Ins("wordb", {}, FALSE, 0, 0, <<>>)           \* \b
NotBehind(cs) == Ins("nbehind", cs, FALSE, 0, 0, <<>>) \* (?<![cs])

Lit(str) == <<Ins("lit", {}, FALSE, 0, 0, str)>>       \* the text str
LitI(str) == <<Ins("lit", {}, TRUE, 0, 0, str)>>       \* str under re.IGNORECASE
Group(n, p) == <<SaveI(2 * n)>> \o p \o <<SaveI(2 * n + 1)>>
Opt(p) == <<SplitI(1, Len(p) + 1)>> \o p
Alt(p, q) == <<SplitI(1, Len(p) + 2)>> \o p \o <<JmpI(Len(q) + 1)>> \o q
LookAhead(p) == <<Ins("look", {}, FALSE, 0, Len(p) + 2, <<>>)>> \o p \o <<MatchI>>

MaxGroup == 6

NoCaps == [k \in 0..(2 * MaxGroup + 1) |-> -1]

Fail == [ok |-> FALSE, start |-> 0, end |-> 0, caps |-> NoCaps]

InClass(c, ins) == (c \in ins.cs) # ins.neg

\* the number of characters of the class of ins that follow offset i
RunLen(s, i, ins) ==
    LET bad == {j \in (i + 1)..Len(s) : ~InClass(s[j], ins)}
    IN  IF bad = {} THEN Len(s) - i ELSE SetMin(bad) - 1 - i

\* the text of ins is at offset i of s
LitAt(s, i, ins) ==
    /\ i + Len(ins.str) <= Len(s)
    /\ \A k \in 1..Len(ins.str) :
          s[i + k] = ins.str[k] \/ (ins.neg /\ ToLower(s[i + k]) = ToLower(ins.str[k]))

\* an instruction that consumes text or tests the position passes at offset i
Passes(s, i, ins) ==
    CASE ins.op = "lit" -> LitAt(s, i, ins)
      [] ins.op = "char" -> i < Len(s) /\ InClass(s[i + 1], ins)
      [] ins.op = "bos" -> i = 0
      [] ins.op = "bol" -> i = 0 \/ s[i] = "\n"
      [] ins.op = "eos" -> i = Len(s) \/ (i = Len(s) - 1 /\ s[Len(s)] = "\n")
      [] ins.op = "eol" -> i = Len(s) \/ s[i + 1] = "\n"
      [] ins.op = "wordb" ->
            (i > 0 /\ s[i] \in WordChars) # (i < Len(s) /\ s[i + 1] \in WordChars)
      [] ins.op = "nbehind" -> ~(i > 0 /\ s[i] \in ins.cs)

\* the characters it consumes
Width(ins) == CASE ins.op = "lit" -> Len(ins.str) [] ins.op = "char" -> 1 [] OTHER -> 0

\* the first of two alternatives that matches
Either(r, q) == IF r.ok THEN r ELSE q

\* the instruction at pc or after it that is not a save
RECURSIVE PastSaves(_, _)
PastSaves(prog, pc) == IF prog[pc].op = "save" THEN PastSaves(prog, pc + 1) ELSE pc

\* the text at offset i does not rule out the instruction ins
MayPass(s, i, ins) ==
    CASE ins.op \in {"match", "split", "jmp", "look"} -> TRUE
      [] ins.op = "rep" -> ins.n = 0 \/ (i < Len(s) /\ InClass(s[i + 1], ins))
      [] OTHER -> Passes(s, i, ins)

RECURSIVE Run(_, _, _, _, _, _)
RECURSIVE Repeat(_, _, _, _, _, _, _, _)
RECURSIVE RepeatIn(_, _, _, _, _, _, _)
RECURSIVE RepeatElse(_, _, _, _, _, _, _, _, _, _)

\* the j-th of the four parts of the range lo..hi, as <<first, last>>; the
\* parts are numbered from the end of the range when down holds
Quarter(lo, hi, j, down) ==
    LET size == ((hi - lo) \div 4) + 1
        n == IF down THEN 3 - j ELSE j
    IN  <<lo + n * size, IF lo + (n + 1) * size - 1 < hi THEN lo + (n + 1) * size - 1 ELSE hi>>

\* the instruction at pc being a repetition: the first match, in priority
\* order, that goes on after lo to hi repetitions.  The counts are tried from
\* hi down when the repetition is greedy and from lo up when it is lazy.
Repeat(prog, s, pc, i, lo, hi, caps, st) ==
    RepeatIn(prog, s, pc, i, caps, st,
             {j \in lo..hi : MayPass(s, i + j, prog[PastSaves(prog, pc + 1)])})

\* the same for the counts of the set counts, after which the text does not rule
\* out the instruction that follows
RepeatIn(prog, s, pc, i, caps, st, counts) ==
    IF counts = {} THEN Fail
    ELSE IF prog[pc].x = 1
    THEN RepeatElse(prog, s, pc, i, caps, st, SetMin(counts), SetMax(counts) - 1, TRUE,
                    Run(prog, s, pc + 1, i + SetMax(counts), caps, st))
    ELSE RepeatElse(prog, s, pc, i, caps, st, SetMin(counts) + 1, SetMax(counts), FALSE,
                    Run(prog, s, pc + 1, i + SetMin(counts), caps, st))

\* r, the outcome of the count tried first, or else that of the counts lo..hi
RepeatElse(prog, s, pc, i, caps, st, lo, hi, down, r) ==
    IF r.ok \/ lo > hi THEN r
    ELSE IF lo = hi THEN Repeat(prog, s, pc, i, lo, hi, caps, st)
    ELSE LET q(j) == Quarter(lo, hi, j, down)
             r0 == Repeat(prog, s, pc, i, q(0)[1], q(0)[2], caps, st)
             r1 == Repeat(prog, s, pc, i, q(1)[1], q(1)[2], caps, st)
             r2 == Repeat(prog, s, pc, i, q(2)[1], q(2)[2], caps, st)
         IN  IF r0.ok THEN r0 ELSE IF r1.ok THEN r1 ELSE IF r2.ok THEN r2
             ELSE Repeat(prog, s, pc, i, q(3)[1], q(3)[2], caps, st)

\* the first match, in priority order, of prog from its instruction pc at
\* offset i of s; st is the offset the match started at
Run(prog, s, pc, i, caps, st) ==
    LET ins == prog[pc]
    IN  CASE ins.op = "match" -> [ok |-> TRUE, start |-> st, end |-> i, caps |-> caps]
          [] ins.op = "rep" ->
                Repeat(prog, s, pc, i, ins.n, RunLen(s, i, ins), caps, st)
          [] ins.op = "split" ->
                Either(Run(prog, s, pc + ins.x, i, caps, st),
                       Run(prog, s, pc + ins.n, i, caps, st))
          [] ins.op = "jmp" -> Run(prog, s, pc + ins.x, i, caps, st)
          [] ins.op = "save" -> Run(prog, s, pc + 1, i, [caps EXCEPT ![ins.n] = i], st)
          [] ins.op = "look" ->
                IF Run(prog, s, pc + 1, i, caps, st).ok
                THEN Run(prog, s, pc + ins.x, i, caps, st) ELSE Fail
          [] OTHER ->
                IF Passes(s, i, ins)
                THEN Run(prog, s, pc + 1, i + Width(ins), caps, st) ELSE Fail

\* pattern.match(s, pos)
MatchAt(prog, s, pos) == Run(prog \o <<MatchI>>, s, 1, pos, NoCaps, pos)

\* the match that starts leftmost among the offsets lo to hi
RECURSIVE Leftmost(_, _, _, _)
RECURSIVE LeftmostIn(_, _, _)
RECURSIVE LeftmostElse(_, _, _, _, _)

Leftmost(prog, s, lo, hi) ==
    LeftmostIn(prog, s, {p \in lo..hi : MayPass(s, p, prog[PastSaves(prog \o <<MatchI>>, 1)])})

\* the same among the offsets of starts, where the text does not rule out the
\* first instruction
LeftmostIn(prog, s, starts) ==
    IF starts = {} THEN Fail
    ELSE LeftmostElse(prog, s, SetMin(starts) + 1, SetMax(starts),
                      MatchAt(prog, s, SetMin(starts)))

\* r, the match at the first offset, or else the leftmost among lo..hi
LeftmostElse(prog, s, lo, hi, r) ==
    IF r.ok \/ lo > hi THEN r
    ELSE IF lo = hi THEN Leftmost(prog, s, lo, hi)
    ELSE LET q(j) == Quarter(lo, hi, j, FALSE)
             r0 == Leftmost(prog, s, q(0)[1], q(0)[2])
             r1 == Leftmost(prog, s, q(1)[1], q(1)[2])
             r2 == Leftmost(prog, s, q(2)[1], q(2)[2])
         IN  IF r0.ok THEN r0 ELSE IF r1.ok THEN r1 ELSE IF r2.ok THEN r2
             ELSE Leftmost(prog, s, q(3)[1], q(3)[2])

\* pattern.search(s, pos): the leftmost match starting at or after pos
Search(prog, s, pos) == Leftmost(prog, s, pos, Len(s))

\* m.group(n): the text of group n of match m, <<>> for a group that took no part
GroupText(s, m, n) ==
    IF m.caps[2 * n] < 0 \/ m.caps[2 * n + 1] < 0 THEN <<>>
    ELSE Slice(s, m.caps[2 * n], m.caps[2 * n + 1])

GroupSet(m, n) == m.caps[2 * n] >= 0 /\ m.caps[2 * n + 1] >= 0

\* m.group(0)
MatchText(s, m) == Slice(s, m.start, m.end)

\* pattern.finditer(s): the non-overlapping matches from the left.  No pattern
\* of the program matches the empty text, so the scan resumes at m.end.
RECURSIVE FindFrom(_, _, _)
RECURSIVE FoundThen(_, _, _)

\* the match m, found first, and those that follow it
FoundThen(prog, s, m) == IF ~m.ok THEN <<>> ELSE <<m>> \o FindFrom(prog, s, m.end)

FindFrom(prog, s, pos) == FoundThen(prog, s, Search(prog, s, pos))

FindAll(prog, s) == FindFrom(prog, s, 0)

\* re.sub(pattern, repl, s) where repl is the text pre followed by group g
\* (g = -1: by nothing)
RECURSIVE SubFrom(_, _, _, _, _)
RECURSIVE SubThen(_, _, _, _, _, _)

\* s from pos on with the match m, found first, and those that follow replaced
SubThen(prog, s, pos, pre, g, m) ==
    IF ~m.ok THEN Slice(s, pos, Len(s))
    ELSE Slice(s, pos, m.start) \o pre
         \o (IF g < 0 THEN <<>> ELSE GroupText(s, m, g))
         \o SubFrom(prog, s, m.end, pre, g)

SubFrom(prog, s, pos, pre, g) == SubThen(prog, s, pos, pre, g, Search(prog, s, pos))

ReSub(prog, pre, g, s) == SubFrom(prog, s, 0, pre, g)

(***************************************************************************)
(* eml2md.py: message records                                              *)
(***************************************************************************)

\* email['date']: None, a datetime.datetime (its fields year..second in dt, its
\* microsecond, and its UTC offset in hours when it is timezone-aware), or the
\* text the heuristic segmenter keeps when dateutil cannot parse it
NoDate == [kind |-> "none", dt |-> <<>>, us |-> 0, aware |-> FALSE, off |-> 0, text |-> <<>>]

DateTime(dt, us) ==
    [kind |-> "datetime", dt |-> dt, us |-> us, aware |-> FALSE, off |-> 0, text |-> <<>>]

DateTimeTz(dt, us, off) ==
    [kind |-> "datetime", dt |-> dt, us |-> us, aware |-> TRUE, off |-> off, text |-> <<>>]

DateStr(text) ==
    [kind |-> "str", dt |-> <<>>, us |-> 0, aware |-> FALSE, off |-> 0, text |-> text]

\* the dict extract_email_parts and process_eml_file build
Email(date, from, to, cc, subject, body, attachments) ==
    [date |-> date, from |-> from, to |-> to, cc |-> cc, subject |-> subject,
     body |-> body, attachments |-> attachments]

(***************************************************************************)
(* eml2md.py: the SimHash fingerprint                                      *)
(***************************************************************************)

\* the printable ASCII characters, code 32 first ("GRAVE" stands for code 96)
Ascii ==
    <<" ","!","\"","#","$","%","&","'","(",")","*","+",",","-",".","/",
      "0","1","2","3","4","5","6","7","8","9",":",";","<","=",">","?",
      "@","A","B","C","D","E","F","G","H","I","J","K","L","M","N","O",
      "P","Q","R","S","T","U","V","W","X","Y","Z","[","\\","]","^","_",
      "GRAVE","a","b","c","d","e","f","g","h","i","j","k","l","m","n","o",
      "p","q","r","s","t","u","v","w","x","y","z","{","|","}","~">>

\* the byte of c.encode(), c an ASCII character
Ord(c) ==
    CASE c = "\t" -> 9
      [] c = "\n" -> 10
      [] c = "\f" -> 12
      [] c = "\r" -> 13
      [] OTHER -> 31 + (CHOOSE k \in DOMAIN Ascii : Ascii[k] = c)

num_bits == 64

\* An unsigned integer of up to num_bits bits is the set of the positions of
\* its 1 bits.
Pow2(k) == IF k = 0 THEN 1 ELSE 2 ^ k

BitsOf(n, width) == {k \in 0..(width - 1) : (n \div Pow2(k)) % 2 = 1}

RECURSIVE ValueOf(_)
ValueOf(bits) ==
    IF bits = {} THEN 0
    ELSE LET k == CHOOSE b \in bits : TRUE IN Pow2(k) + ValueOf(bits \ {k})

Xor(a, b) == {k \in 0..(num_bits - 1) : (k \in a) # (k \in b)}

Shr(a, n) == {k \in 0..(num_bits - 1) : k + n \in a}

\* 0xEDB88320, the reflected CRC-32 polynomial
CrcPoly == {5, 8, 9, 15, 19, 20, 21, 23, 24, 26, 27, 29, 30, 31}

RECURSIVE CrcShift(_, _)
CrcShift(c, n) ==
    IF n = 0 THEN c
    ELSE CrcShift(IF 0 \in c THEN Xor(Shr(c, 1), CrcPoly) ELSE Shr(c, 1), n - 1)

\* the table of the byte-wise CRC-32: the entry of byte n is CrcTable[n + 1]
CrcTable == [n \in 1..256 |-> CrcShift(BitsOf(n - 1, 8), 8)]

RECURSIVE CrcUpdate(_, _)
CrcUpdate(crc, bytes) ==
    IF bytes = <<>> THEN crc
    ELSE LET idx == ValueOf({k \in Xor(crc, BitsOf(Head(bytes), 8)) : k < 8})
             next == Xor(CrcTable[idx + 1], Shr(crc, 8))
         IN  \* the test has next computed before the call
             IF next = {} THEN CrcUpdate({}, Tail(bytes)) ELSE CrcUpdate(next, Tail(bytes))

\* binascii.crc32(feature.encode()) & 0xffffffff
crc32(feature) ==
    LET bytes == [k \in 1..Len(feature) |-> Ord(feature[k])]
    IN  Xor(CrcUpdate(0..31, bytes), 0..31)

\* text.lower()
Lower(text) == [k \in 1..Len(text) |-> ToLower(text[k])]

\* text.split()
Words(text) == NonEmpty(SplitSet(text, Space))

\* the words and the bigrams of the text
Features(words) ==
    words \o [i \in 1..(Len(words) - 1) |-> words[i] \o <<" ">> \o words[i + 1]]

FeatureHashes(features) == <<>> \o [k \in 1..Len(features) |-> crc32(features[k])]

\* v[i]: the features whose hash has bit i, less those whose hash lacks it
Votes(h, i) ==
    Cardinality({k \in 1..Len(h) : i \in h[k]}) - Cardinality({k \in 1..Len(h) : i \notin h[k]})

\* a fingerprint whose bit i is set when v[i] >= 0
FingerprintOf_nonnegative(h) == {i \in 0..(num_bits - 1) : Votes(h, i) >= 0}

\* bit i of the fingerprint is set when v[i] > 0
FingerprintOf(h) == {i \in 0..(num_bits - 1) : Votes(h, i) > 0}

simhash(text) ==
    FingerprintOf(FeatureHashes(Features(Words(
        ReSub(<<Rep(Space, 1)>>, <<" ">>, -1, Lower(text))))))

hamming_distance(hash1, hash2) == Cardinality(Xor(hash1, hash2))

\* lines[:min(n, len(lines))]
FirstN(lines, n) == SubSeq(lines, 1, IF n < Len(lines) THEN n ELSE Len(lines))

KeyLineCount == 5

\* the stripped non-empty lines of a body
StrippedLines(body) ==
    LET raw == SplitSet(body, {"\n"})
    IN  NonEmpty([k \in 1..Len(raw) |-> Strip(raw[k])])

\* a fingerprint that also reads the To field
email_feature_hash_with_to(email) ==
    LET c1 == IF email.from # <<>> THEN email.from \o <<" ">> ELSE <<>>
        c2 == IF email.subject # <<>> THEN email.subject \o <<" ">> ELSE <<>>
        key_lines == FirstN(StrippedLines(email.body), KeyLineCount)
    IN  simhash(c1 \o c2 \o email.to \o <<" ">> \o Join(<<" ">>, key_lines))

email_feature_hash(email) ==
    LET c1 == IF email.from # <<>> THEN email.from \o <<" ">> ELSE <<>>
        c2 == IF email.subject # <<>> THEN email.subject \o <<" ">> ELSE <<>>
        key_lines == FirstN(StrippedLines(email.body), KeyLineCount)
    IN  simhash(c1 \o c2 \o Join(<<" ">>, key_lines))

(***************************************************************************)
(* datetime: the proleptic Gregorian calendar                              *)
(***************************************************************************)

\* the day number of year y, month m, day d (day 0 is 1970-01-01)
DayOfEra(yoe, doy) == yoe * 365 + yoe \div 4 - yoe \div 100 + doy

DayOfYear(m, d) == (153 * (IF m > 2 THEN m - 3 ELSE m + 9) + 2) \div 5 + d - 1

DaysOfShifted(y, m, d) ==
    (y \div 400) * 146097 + DayOfEra(y % 400, DayOfYear(m, d)) - 719468

DaysFromCivil(y, m, d) == DaysOfShifted(IF m <= 2 THEN y - 1 ELSE y, m, d)

\* the year, month and day of a day number
YearOfEra(doe) == (doe - doe \div 1460 + doe \div 36524 - doe \div 146096) \div 365

MonthOf(mp) == IF mp < 10 THEN mp + 3 ELSE mp - 9

CivilOfMonth(y, m, d) == <<IF m <= 2 THEN y + 1 ELSE y, m, d>>

CivilOfDoy(y, doy, mp) == CivilOfMonth(y, MonthOf(mp), doy - (153 * mp + 2) \div 5 + 1)

CivilOfYoe(era, doe, yoe) ==
    CivilOfDoy(yoe + era * 400, doe - DayOfEra(yoe, 0), (5 * (doe - DayOfEra(yoe, 0)) + 2) \div 153)

CivilOfEra(z, era) == CivilOfYoe(era, z - era * 146097, YearOfEra(z - era * 146097))

CivilFromDays(n) == CivilOfEra(n + 719468, (n + 719468) \div 146097)

\* dt + datetime.timedelta(hours=h), dt the fields year..second
OnDay(ymd, secs) == ymd \o <<secs \div 3600, (secs % 3600) \div 60, secs % 60>>

AtSecond(days, secs) == OnDay(CivilFromDays(days + secs \div 86400), secs % 86400)

AddHours(dt, h) ==
    AtSecond(DaysFromCivil(dt[1], dt[2], dt[3]), dt[4] * 3600 + dt[5] * 60 + dt[6] + h * 3600)

\* date.astimezone(datetime.timezone.utc).replace(tzinfo=None)
ToNaiveUtc(date) == DateTime(AddHours(date.dt, -date.off), date.us)

\* datetime.datetime.min
DateTimeMin == DateTime(<<1, 1, 1, 0, 0, 0>>, 0)

\* a < b for two naive datetimes
RECURSIVE LexLess(_, _)
LexLess(a, b) ==
    IF a = <<>> THEN FALSE
    ELSE Head(a) < Head(b) \/ (Head(a) = Head(b) /\ LexLess(Tail(a), Tail(b)))

DateLess(a, b) == LexLess(a.dt \o <<a.us>>, b.dt \o <<b.us>>)

\* sorted(items, key=..., reverse=reverse): the indices of keys in the order
\* of the stable sort; with reverse the larger keys come first and equal keys
\* keep their order
Before(keys, reverse, i, j) ==
    \/ IF reverse THEN DateLess(keys[j], keys[i]) ELSE DateLess(keys[i], keys[j])
    \/ keys[i] = keys[j] /\ i < j

\* a descending sort made by reversing the ascending one
SortOrder_by_reversal(keys, reverse) ==
    [p \in 1..Len(keys) |->
        CHOOSE i \in 1..Len(keys) :
            Cardinality({j \in 1..Len(keys) : Before(keys, FALSE, j, i)})
                = IF reverse THEN Len(keys) - p ELSE p - 1]

\* a sort that is always ascending
SortOrder_ascending(keys, reverse) ==
    [p \in 1..Len(keys) |->
        CHOOSE i \in 1..Len(keys) :
            Cardinality({j \in 1..Len(keys) : Before(keys, FALSE, j, i)}) = p - 1]

SortOrder(keys, reverse) ==
    [p \in 1..Len(keys) |->
        CHOOSE i \in 1..Len(keys) :
            Cardinality({j \in 1..Len(keys) : Before(keys, reverse, j, i)}) = p - 1]

(***************************************************************************)
(* eml2md.py: deduplicate_emails                                           *)
(***************************************************************************)

\* the loop that turns the timezone-aware dates into naive UTC ones, in place
NormalizeDate(email) ==
    IF email.date.kind = "datetime" /\ email.date.aware
    THEN [email EXCEPT !.date = ToNaiveUtc(email.date)] ELSE email

NormalizeDates(emails) == [k \in 1..Len(emails) |-> NormalizeDate(emails[k])]

\* datetime.datetime.max
DateTimeMax == DateTime(<<9999, 12, 31, 23, 59, 59>>, 999999)

\* a sort key that puts the records without a timestamp at the other end
DateKey_max(email) == IF email.date.kind = "datetime" THEN email.date ELSE DateTimeMax

\* the sort key of deduplicate_emails and of create_markdown_content
DateKey(email) == IF email.date.kind = "datetime" THEN email.date ELSE DateTimeMin

DateKeys(emails) == [k \in 1..Len(emails) |-> DateKey(emails[k])]

\* email_hashes before the sort
EmailHashes(emails) == [k \in 1..Len(emails) |-> email_feature_hash(emails[k])]

\* an inner loop that also takes the entries within threshold of an entry that
\* is within threshold of entry i
Similar_single_link(hashes, threshold, i, used) ==
    {j \in 1..Len(hashes) :
        /\ j \notin used /\ j # i
        /\ \E m \in 1..Len(hashes) :
              /\ m \notin used
              /\ hamming_distance(hashes[i], hashes[m]) <= threshold
              /\ hamming_distance(hashes[m], hashes[j]) <= threshold}

\* an inner loop that takes the entries within twice the threshold
Similar_within_twice(hashes, threshold, i, used) ==
    {j \in 1..Len(hashes) :
        j \notin used /\ j # i /\ hamming_distance(hashes[i], hashes[j]) <= 2 * threshold}

\* an inner loop that takes only the entries nearer than the threshold
Similar_strictly_below(hashes, threshold, i, used) ==
    {j \in 1..Len(hashes) :
        j \notin used /\ j # i /\ hamming_distance(hashes[i], hashes[j]) < threshold}

\* the inner loop: the entries not yet used that are within threshold of entry i
Similar(hashes, threshold, i, used) ==
    {j \in 1..Len(hashes) :
        j \notin used /\ j # i /\ hamming_distance(hashes[i], hashes[j]) <= threshold}

\* a loop that also appends the entries it finds similar, and leaves them unused
RECURSIVE KeepLoop_appending(_, _, _, _)
KeepLoop_appending(hashes, threshold, i, used) ==
    IF i > Len(hashes) THEN <<>>
    ELSE IF i \in used THEN KeepLoop_appending(hashes, threshold, i + 1, used)
    ELSE <<i>> \o [k \in 1..Cardinality(Similar(hashes, threshold, i, used)) |-> i]
         \o KeepLoop_appending(hashes, threshold, i + 1, used \cup {i})

\* the outer loop from entry i on: the entries appended to unique_emails
RECURSIVE KeepLoop(_, _, _, _)
KeepLoop(hashes, threshold, i, used) ==
    IF i > Len(hashes) THEN <<>>
    ELSE IF i \in used THEN KeepLoop(hashes, threshold, i + 1, used)
    ELSE <<i>> \o KeepLoop(hashes, threshold, i + 1,
                           used \cup {i} \cup Similar(hashes, threshold, i, used))

\* the positions, in the list given, of the records returned: order is the
\* sort of email_hashes, kept the positions in it that the loop appends
KeptOf(order, kept) == [k \in 1..Len(kept) |-> order[kept[k]]]

KeptIn(hashes, threshold, order) ==
    KeptOf(order, KeepLoop([k \in 1..Len(order) |-> hashes[order[k]]], threshold, 1, {}))

Survivors(normal, threshold) ==
    KeptIn(EmailHashes(normal), threshold, SortOrder(DateKeys(normal), TRUE))

Pick(emails, idx) == [k \in 1..Len(idx) |-> emails[idx[k]]]

deduplicate_emails(emails, threshold) ==
    IF emails = <<>> THEN <<>>
    ELSE Pick(NormalizeDates(emails), Survivors(NormalizeDates(emails), threshold))

(***************************************************************************)
(* eml2md.py: create_markdown_content                                      *)
(***************************************************************************)

\* str(n), n >= 0
RECURSIVE IntText(_)
IntText(n) == IF n < 10 THEN <<Digits[n + 1]>> ELSE IntText(n \div 10) \o <<Digits[(n % 10) + 1]>>

\* a field of strftime that takes two digits
Pad2(n) == <<Digits[(n \div 10) + 1], Digits[(n % 10) + 1]>>

\* date.strftime('%Y-%m-%d %H:%M:%S'); the C library writes the year unpadded
StrfTime(dt) ==
    IntText(dt[1]) \o <<"-">> \o Pad2(dt[2]) \o <<"-">> \o Pad2(dt[3]) \o <<" ">>
    \o Pad2(dt[4]) \o <<":">> \o Pad2(dt[5]) \o <<":">> \o Pad2(dt[6])

Bold(label) == <<"*","*">> \o label \o <<"*","*",":"," ">>

\* the Date line: none for None and for the empty text
DateLine(date) ==
    CASE date.kind = "datetime" -> Bold(<<"D","a","t","e">>) \o StrfTime(date.dt) \o <<"\n","\n">>
      [] date.kind = "str" /\ date.text # <<>> ->
            Bold(<<"D","a","t","e">>) \o date.text \o <<"\n","\n">>
      [] OTHER -> <<>>

CcLine(cc) == IF cc = <<>> THEN <<>> ELSE Bold(<<"C","C">>) \o cc \o <<"\n","\n">>

\* "- [name](name)\n" for each attachment
AttachmentLine(name) == <<"-"," ","[">> \o name \o <<"]","(">> \o name \o <<")","\n">>

AttachmentLines(attachments) ==
    Concat([k \in 1..Len(attachments) |-> AttachmentLine(attachments[k])])

AttachmentsBlock(attachments) ==
    IF attachments = <<>> THEN <<>>
    ELSE <<"#","#","#"," ","A","t","t","a","c","h","m","e","n","t","s","\n","\n">>
         \o AttachmentLines(attachments) \o <<"\n">>

\* the text one turn of the loop appends for the record at position idx
RenderSection(idx, email_parts) ==
    <<"#","#"," ","E","m","a","i","l"," ">> \o IntText(idx) \o <<"\n","\n">>
    \o DateLine(email_parts.date)
    \o Bold(<<"F","r","o","m">>) \o email_parts.from \o <<"\n","\n">>
    \o Bold(<<"T","o">>) \o email_parts.to \o <<"\n","\n">>
    \o CcLine(email_parts.cc)
    \o Bold(<<"S","u","b","j","e","c","t">>) \o email_parts.subject \o <<"\n","\n">>
    \o <<"#","#","#"," ","C","o","n","t","e","n","t","\n","\n">>
    \o Strip(email_parts.body) \o <<"\n","\n">>
    \o AttachmentsBlock(email_parts.attachments)
    \o <<"-","-","-","\n","\n">>

DocHeader == <<"#"," ","E","m","a","i","l"," ","T","h","r","e","a","d","\n","\n">>

\* the document of the records taken in the order given
RenderInOrder(emails, order) ==
    DocHeader \o Concat([k \in 1..Len(order) |-> RenderSection(k, emails[order[k]])])

create_markdown_content(emails, newest_first) ==
    RenderInOrder(emails, SortOrder(DateKeys(emails), newest_first))

(***************************************************************************)
(* read_md_email.py: helpers                                               *)
(***************************************************************************)

\* r"\s+"
RE_ws == <<Rep(Space, 1)>>

_clean_ws(text) == ReSub(RE_ws, <<" ">>, -1, Strip(text))

\* r"^(?:(re|fw|fwd)\s*:\s*)" with re.IGNORECASE
RE_subject_prefix ==
    <<Bos>>
    \o Group(1, Alt(LitI(<<"r","e">>), Alt(LitI(<<"f","w">>), LitI(<<"f","w","d">>))))
    \o <<Rep(Space, 0)>> \o Lit(<<":">>) \o <<Rep(Space, 0)>>

StripOnce(s) == ReSub(RE_subject_prefix, <<>>, -1, s)

\* the loop left after its first pass
StripLoop_once(s) == StripOnce(s)

RECURSIVE StripLoop(_)
RECURSIVE StripAgain(_, _)

\* one turn of the loop: new is s after the substitution
StripAgain(s, new) == IF new = s THEN s ELSE StripLoop(new)

StripLoop(s) == StripAgain(s, StripOnce(s))

_strip_subject_prefixes(subject) ==
    IF subject = <<>> THEN <<>> ELSE StripLoop(Strip(subject))

\* r"[\r\n\t]+"
RE_newlines_tabs == <<Rep({"\r", "\n", "\t"}, 1)>>

\* r"\b,\s*(<[^>]+>)"
RE_stray_comma ==
    <<WordB>> \o Lit(<<",">>) \o <<Rep(Space, 0)>>
    \o Group(1, Lit(<<"<">>) \o <<NRep({">"}, 1)>> \o Lit(<<">">>))

\* r"\s{2,}"
RE_spaces2 == <<Rep(Space, 2)>>

_normalize_name_email_glue(s) ==
    LET s1 == ReSub(RE_newlines_tabs, <<" ">>, -1, s)
        s2 == ReSub(RE_stray_comma, <<" ">>, 1, s1)
    IN  Strip(ReSub(RE_spaces2, <<" ">>, -1, s2))

\* r'(?:^|[;,])\s*([^<>",;]+?)\s*<([^>]+)>'
name_email_pat ==
    Alt(<<Bos>>, <<Chr({";", ","})>>) \o <<Rep(Space, 0)>>
    \o Group(1, <<NRepLazy({"<", ">", "\"", ",", ";"}, 1)>>)
    \o <<Rep(Space, 0)>> \o Lit(<<"<">>)
    \o Group(2, <<NRep({">"}, 1)>>) \o Lit(<<">">>)

EmailLocalChars == WordChars \cup {".", "%", "+", "-"}

EmailDomainChars == (WordChars \ {"_"}) \cup {".", "-"}

\* r"(?<![<@])([A-Za-z0-9._%+-]+@[A-Za-z0-9.-]+\.[A-Za-z]{2,})"
RE_bare_email ==
    <<NotBehind({"<", "@"})>>
    \o Group(1, <<Rep(EmailLocalChars, 1)>> \o Lit(<<"@">>) \o <<Rep(EmailDomainChars, 1)>>
                 \o Lit(<<".">>) \o <<Rep(Range(LowerAlpha) \cup Range(UpperAlpha), 2)>>)

\* r'^[,;]\s*'
RE_leading_sep == <<Bos, Chr({",", ";"}), Rep(Space, 0)>>

\* the character "\0" that masks a consumed span
NUL == "NUL"

\* step 1: the "Name <email>" items, in order
NameEmailItem(s, m) ==
    _clean_ws(GroupText(s, m, 1)) \o <<" ", "<">> \o _clean_ws(GroupText(s, m, 2)) \o <<">">>

NameEmailItems(s, ms) == [k \in 1..Len(ms) |-> NameEmailItem(s, ms[k])]

\* s with the spans of the step 1 matches ms overwritten by "\0"
Masked(s, ms) ==
    [i \in 1..Len(s) |->
        IF \E k \in 1..Len(ms) : ms[k].start < i /\ i <= ms[k].end THEN NUL ELSE s[i]]

BareEmailTexts(masked, ms) == [k \in 1..Len(ms) |-> GroupText(masked, ms[k], 1)]

\* step 2: the bare emails left in the masked text
BareEmails(masked) == BareEmailTexts(masked, FindAll(RE_bare_email, masked))

\* step 3: the fallback split
FallbackParts(s) ==
    LET parts == SplitSet(s, {";", ","})
    IN  NonEmpty([k \in 1..Len(parts) |-> Strip(parts[k])])

\* step 4: a leading separator removed
CleanLeading(recipients) ==
    [k \in 1..Len(recipients) |-> Strip(ReSub(RE_leading_sep, <<>>, -1, recipients[k]))]

\* the recipients kept as they are
Uniq_keep_all(recipients) == recipients

\* de-dup while preserving order
RECURSIVE Uniq(_)
Uniq(recipients) ==
    IF recipients = <<>> THEN <<>>
    ELSE LET init == SubSeq(recipients, 1, Len(recipients) - 1)
             r == recipients[Len(recipients)]
         IN  IF r # <<>> /\ r \notin Range(init) THEN Uniq(init) \o <<r>> ELSE Uniq(init)

\* the recipients found, or else the parts of the fallback split
FoundOrFallback(s, found) == IF found = <<>> THEN FallbackParts(s) ELSE found

\* steps 1 to 3 on the normalized field s, ms the step 1 matches
Recipients(s, ms) == FoundOrFallback(s, NameEmailItems(s, ms) \o BareEmails(Masked(s, ms)))

RecipientsOf(s) == Recipients(s, FindAll(name_email_pat, s))

_parse_recipients_list(field) ==
    IF field = <<>> THEN <<>>
    ELSE Uniq(CleanLeading(RecipientsOf(_normalize_name_email_glue(field))))

(***************************************************************************)
(* read_md_email.py: parse_emails                                          *)
(***************************************************************************)

DigitSet == Range(Digits)

\* int(text), text made of digits
RECURSIVE IntOf(_)
IntOf(text) ==
    IF text = <<>> THEN 0
    ELSE 10 * IntOf(SubSeq(text, 1, Len(text) - 1))
         + (CHOOSE d \in 0..9 : Digits[d + 1] = text[Len(text)])

\* r"^## Email\s+\d+\s*$" with re.MULTILINE
RE_section ==
    <<Bol>> \o Lit(<<"#","#"," ","E","m","a","i","l">>)
    \o <<Rep(Space, 1), Rep(DigitSet, 1), Rep(Space, 0), Eol>>

\* r"^## Email\s+(\d+)\s*$" with re.MULTILINE
RE_number ==
    <<Bol>> \o Lit(<<"#","#"," ","E","m","a","i","l">>) \o <<Rep(Space, 1)>>
    \o Group(1, <<Rep(DigitSet, 1)>>) \o <<Rep(Space, 0), Eol>>

\* r"\*\*label\*\*:\s*(.+)"
RE_line_field(label) ==
    Lit(<<"*","*">> \o label \o <<"*","*",":">>) \o <<Rep(Space, 0)>>
    \o Group(1, <<NRep({"\n"}, 1)>>)

\* r"\*\*To\*\*:\s*(.+?)(?=\n\*\*(CC|Subject)\*\*:|\n###|$)" with re.DOTALL
RE_to ==
    Lit(<<"*","*","T","o","*","*",":">>) \o <<Rep(Space, 0)>>
    \o Group(1, <<NRepLazy({}, 1)>>)
    \o LookAhead(Alt(Lit(<<"\n","*","*">>)
                        \o Group(2, Alt(Lit(<<"C","C">>), Lit(<<"S","u","b","j","e","c","t">>)))
                        \o Lit(<<"*","*",":">>),
                     Alt(Lit(<<"\n","#","#","#">>), <<Eos>>)))

\* r"\*\*CC\*\*:\s*(.+?)(?=\n\*\*Subject\*\*:|\n###|$)" with re.DOTALL
RE_cc ==
    Lit(<<"*","*","C","C","*","*",":">>) \o <<Rep(Space, 0)>>
    \o Group(1, <<NRepLazy({}, 1)>>)
    \o LookAhead(Alt(Lit(<<"\n","*","*","S","u","b","j","e","c","t","*","*",":">>),
                     Alt(Lit(<<"\n","#","#","#">>), <<Eos>>)))

\* r"### Content\s*\n(.+?)(?=\n-{3,}|\n## |\n### Attachments|$)" with re.DOTALL
RE_content ==
    Lit(<<"#","#","#"," ","C","o","n","t","e","n","t">>) \o <<Rep(Space, 0)>> \o Lit(<<"\n">>)
    \o Group(1, <<NRepLazy({}, 1)>>)
    \o LookAhead(Alt(Lit(<<"\n">>) \o <<Rep({"-"}, 3)>>,
                     Alt(Lit(<<"\n","#","#"," ">>),
                         Alt(Lit(<<"\n","#","#","#"," ","A","t","t","a","c","h","m","e","n","t","s">>),
                             <<Eos>>))))

\* r"^_{6,}.*$" with re.MULTILINE
RE_underscores == <<Bol, Rep({"_"}, 6), NRep({"\n"}, 0), Eol>>

\* "________________________________"
token == [k \in 1..32 |-> "_"]

\* s.find(sub): the offset of the first occurrence, -1 when there is none
StrFind(s, sub) ==
    IF \A p \in 0..(Len(s) - Len(sub)) : SubSeq(s, p + 1, p + Len(sub)) # sub THEN -1
    ELSE CHOOSE p \in 0..(Len(s) - Len(sub)) :
            /\ SubSeq(s, p + 1, p + Len(sub)) = sub
            /\ \A q \in 0..(p - 1) : SubSeq(s, q + 1, q + Len(sub)) # sub

\* the regular expression datetime.strptime makes of DATE_IN_FMT,
\* "%Y-%m-%d %H:%M:%S"
RE_date_in_fmt ==
    Group(1, <<Chr(DigitSet), Chr(DigitSet), Chr(DigitSet), Chr(DigitSet)>>) \o Lit(<<"-">>)
    \o Group(2, Alt(<<Chr({"1"}), Chr({"0","1","2"})>>,
                Alt(<<Chr({"0"}), Chr(DigitSet \ {"0"})>>, <<Chr(DigitSet \ {"0"})>>)))
    \o Lit(<<"-">>)
    \o Group(3, Alt(<<Chr({"3"}), Chr({"0","1"})>>,
                Alt(<<Chr({"1","2"}), Chr(DigitSet)>>,
                Alt(<<Chr({"0"}), Chr(DigitSet \ {"0"})>>,
                Alt(<<Chr(DigitSet \ {"0"})>>, <<Chr({" "}), Chr(DigitSet \ {"0"})>>)))))
    \o <<Rep(Space, 1)>>
    \o Group(4, Alt(<<Chr({"2"}), Chr({"0","1","2","3"})>>,
                Alt(<<Chr({"0","1"}), Chr(DigitSet)>>, <<Chr(DigitSet)>>)))
    \o Lit(<<":">>)
    \o Group(5, Alt(<<Chr({"0","1","2","3","4","5"}), Chr(DigitSet)>>, <<Chr(DigitSet)>>))
    \o Lit(<<":">>)
    \o Group(6, Alt(<<Chr({"6"}), Chr({"0","1"})>>,
                Alt(<<Chr({"0","1","2","3","4","5"}), Chr(DigitSet)>>, <<Chr(DigitSet)>>)))

DaysInMonth(y, m) ==
    (IF m = 12 THEN DaysFromCivil(y + 1, 1, 1) ELSE DaysFromCivil(y, m + 1, 1))
    - DaysFromCivil(y, m, 1)

\* the fields year..second of a match of the format
FieldsOf(text, m) == [k \in 1..6 |-> IntOf(LStrip(GroupText(text, m, k)))]

\* datetime.datetime(*dt) raises no ValueError
ValidDateTime(dt) == dt[1] >= 1 /\ dt[3] <= DaysInMonth(dt[1], dt[2]) /\ dt[6] <= 59

\* the value or the ValueError (NoDate) of strptime, m the match of the format
StrpTimeOf(text, m) ==
    IF m.ok /\ m.end = Len(text) /\ ValidDateTime(FieldsOf(text, m))
    THEN DateTime(FieldsOf(text, m), 0) ELSE NoDate

\* date_obj: datetime.strptime(date_raw, DATE_IN_FMT), None on ValueError and
\* for the empty text
StrpTime(date_raw) == StrpTimeOf(date_raw, MatchAt(RE_date_in_fmt, date_raw, 0))

\* date_obj.strftime(DATE_OUT_FMT), "%Y-%m-%d %H:%M"; "" when there is no date_obj
DateOut(date) ==
    IF date.kind # "datetime" THEN <<>>
    ELSE IntText(date.dt[1]) \o <<"-">> \o Pad2(date.dt[2]) \o <<"-">> \o Pad2(date.dt[3])
         \o <<" ">> \o Pad2(date.dt[4]) \o <<":">> \o Pad2(date.dt[5])

\* m.group(1) if m else ""
Group1(chunk, m) == IF m.ok THEN GroupText(chunk, m, 1) ELSE <<>>

\* int(num_m.group(1)) if num_m else None; None is -1
EmailNumber(chunk, m) == IF m.ok THEN IntOf(GroupText(chunk, m, 1)) ELSE -1

\* the offset found first by both markers, as soon as one is present
SplitPos_first_marker(content_raw, m_sep) ==
    IF m_sep.ok /\ StrFind(content_raw, token) >= 0
    THEN (IF m_sep.start < StrFind(content_raw, token)
          THEN m_sep.start ELSE StrFind(content_raw, token))
    ELSE IF m_sep.ok THEN m_sep.start ELSE StrFind(content_raw, token)

\* split_pos, None being -1: m_sep is the first line of six underscores or more
SplitPos(content_raw, m_sep) ==
    IF m_sep.ok THEN m_sep.start ELSE StrFind(content_raw, token)

CutAt(content_raw, split_pos) ==
    IF split_pos >= 0 THEN RStrip(Slice(content_raw, 0, split_pos)) ELSE content_raw

\* content_clean
ContentClean(content_raw) ==
    CutAt(content_raw, SplitPos(content_raw, Search(RE_underscores, content_raw, 0)))

ParsedOf(email_number, date_raw, from, to_list, cc_list, subject, content) ==
    [email_number |-> email_number, date_in |-> date_raw, date_out |-> DateOut(StrpTime(date_raw)),
     date |-> StrpTime(date_raw), from |-> from, to_list |-> to_list, cc_list |-> cc_list,
     subject |-> subject, content |-> content]

\* the dict appended for a chunk
ParseChunk(chunk) ==
    ParsedOf(EmailNumber(chunk, Search(RE_number, chunk, 0)),
             _clean_ws(Group1(chunk, Search(RE_line_field(<<"D","a","t","e">>), chunk, 0))),
             _clean_ws(Group1(chunk, Search(RE_line_field(<<"F","r","o","m">>), chunk, 0))),
             _parse_recipients_list(Group1(chunk, Search(RE_to, chunk, 0))),
             _parse_recipients_list(Group1(chunk, Search(RE_cc, chunk, 0))),
             _strip_subject_prefixes(_clean_ws(
                 Group1(chunk, Search(RE_line_field(<<"S","u","b","j","e","c","t">>), chunk, 0)))),
             ContentClean(Strip(Group1(chunk, Search(RE_content, chunk, 0)))))

\* the chunk is not skipped: it is not blank and one of Date, From, Subject
\* and Content is found in it
IsMessage(chunk) ==
    /\ Strip(chunk) # <<>>
    /\ \/ Search(RE_line_field(<<"D","a","t","e">>), chunk, 0).ok
       \/ Search(RE_line_field(<<"F","r","o","m">>), chunk, 0).ok
       \/ Search(RE_line_field(<<"S","u","b","j","e","c","t">>), chunk, 0).ok
       \/ Search(RE_content, chunk, 0).ok

\* the members of a set of numbers in increasing order
Ascending(S) ==
    [k \in 1..Cardinality(S) |-> CHOOSE x \in S : Cardinality({y \in S : y < x}) = k - 1]

\* the pieces of md between the offsets cuts, in increasing order
PiecesAt(md, cuts) ==
    [k \in 1..(Len(cuts) + 1) |->
        Slice(md, IF k = 1 THEN 0 ELSE cuts[k - 1],
                  IF k > Len(cuts) THEN Len(md) ELSE cuts[k])]

\* re.split(r"(?=^## Email\s+\d+\s*$)", md_text, flags=re.MULTILINE)
Chunks(md_text) ==
    PiecesAt(md_text, Ascending({p \in 0..Len(md_text) : MatchAt(RE_section, md_text, p).ok}))

\* the chunks that are messages, in their order
RECURSIVE Messages(_)
Messages(chunks) ==
    IF chunks = <<>> THEN <<>>
    ELSE (IF IsMessage(Head(chunks)) THEN <<Head(chunks)>> ELSE <<>>) \o Messages(Tail(chunks))

\* float("-inf"), below the timestamp of every date
MinusInfinity == DateTime(<<0, 0, 0, 0, 0, 0>>, 0)

\* a sort key that puts the records without a date above every timestamp
sort_key_plus_infinity(e) == IF e.date.kind = "datetime" THEN e.date ELSE DateTimeMax

\* sort_key; timestamp() orders the naive dates as they are
sort_key(e) == IF e.date.kind = "datetime" THEN e.date ELSE MinusInfinity

SortKeys(emails) == [k \in 1..Len(emails) |-> sort_key(emails[k])]

SortedNewestFirst(emails) == Pick(emails, SortOrder(SortKeys(emails), TRUE))

ParseChunks(chunks) == [k \in 1..Len(chunks) |-> ParseChunk(chunks[k])]

parse_emails(md_text) == SortedNewestFirst(ParseChunks(Messages(Chunks(md_text))))

(***************************************************************************)
(* eml2md.py: extract_thread_parts and the segmentation of a container     *)
(***************************************************************************)

\* (.*?) under re.DOTALL
AnyLazy == <<NRepLazy({}, 0)>>

\* [\r\n]+
LineEnds == <<Rep({"\r", "\n"}, 1)>>

\* [\s]*
Blanks == <<Rep(Space, 0)>>

\* r'From:[\s]*(.*?)[\r\n]+Sent:[\s]*(.*?)[\r\n]+To:[\s]*(.*?)(?:[\r\n]+Cc:[\s]*(.*?))?[\r\n]+Subject:[\s]*(.*?)[\r\n]+'
\* with re.IGNORECASE | re.DOTALL
OutlookPattern ==
    LitI(<<"F","r","o","m",":">>) \o Blanks \o Group(1, AnyLazy) \o LineEnds
    \o LitI(<<"S","e","n","t",":">>) \o Blanks \o Group(2, AnyLazy) \o LineEnds
    \o LitI(<<"T","o",":">>) \o Blanks \o Group(3, AnyLazy)
    \o Opt(LineEnds \o LitI(<<"C","c",":">>) \o Blanks \o Group(4, AnyLazy))
    \o LineEnds \o LitI(<<"S","u","b","j","e","c","t",":">>) \o Blanks \o Group(5, AnyLazy)
    \o LineEnds

\* r'On[\s]*(.*?),[\s]*(.*?)[\s]+wrote:[\r\n]+'
WrotePattern ==
    LitI(<<"O","n">>) \o Blanks \o Group(1, AnyLazy) \o Lit(<<",">>) \o Blanks
    \o Group(2, AnyLazy) \o <<Rep(Space, 1)>> \o LitI(<<"w","r","o","t","e",":">>) \o LineEnds

\* r'On[\s]*(.*?)[\s]+at[\s]+(.*?),[\s]*(.*?)[\s]+wrote:[\r\n]+'
GmailPattern ==
    LitI(<<"O","n">>) \o Blanks \o Group(1, AnyLazy) \o <<Rep(Space, 1)>>
    \o LitI(<<"a","t">>) \o <<Rep(Space, 1)>> \o Group(2, AnyLazy) \o Lit(<<",">>) \o Blanks
    \o Group(3, AnyLazy) \o <<Rep(Space, 1)>> \o LitI(<<"w","r","o","t","e",":">>) \o LineEnds

patterns == <<OutlookPattern, WrotePattern, GmailPattern>>

\* email_part before its body is filled in
EmailPart(from, date, to, cc, subject, body) ==
    [from |-> from, date |-> date, to |-> to, cc |-> cc, subject |-> subject, body |-> body]

\* the part of a match of the pattern that holds "From:"
OutlookPart(s, m, body) ==
    EmailPart(Strip(GroupText(s, m, 1)), Strip(GroupText(s, m, 2)), Strip(GroupText(s, m, 3)),
              Strip(GroupText(s, m, 4)), Strip(GroupText(s, m, 5)), body)

\* the part of a match of one of the other patterns, which has groups groups
OtherPart(s, m, groups, body) ==
    EmailPart(IF groups >= 3 /\ GroupText(s, m, 3) # <<>>
              THEN Strip(GroupText(s, m, 3)) ELSE Strip(GroupText(s, m, 1)),
              IF GroupText(s, m, 1) # <<>> /\ GroupText(s, m, 2) # <<>>
              THEN Strip(GroupText(s, m, 1)) \o <<" ">> \o Strip(GroupText(s, m, 2)) ELSE <<>>,
              <<>>, <<>>, <<>>, body)

\* the starts in body_text of the first matches of the patterns after offset end
NextStarts(body_text, end) ==
    {end + m.start :
        m \in {n \in {Search(patterns[k], Slice(body_text, end, Len(body_text)), 0) :
                        k \in DOMAIN patterns} : n.ok}}

\* a body that always runs to the end of the text
PartBody_to_end(body_text, end, nexts) == Strip(Slice(body_text, end, Len(body_text)))

\* body_text[match.end():next_match].strip(), to the end when there is no next match
PartBody(body_text, end, nexts) ==
    Strip(Slice(body_text, end, IF nexts = {} THEN Len(body_text) ELSE SetMin(nexts)))

\* the email_part of match m of pattern number k
ThreadPart(body_text, k, m) ==
    IF k = 1
    THEN OutlookPart(body_text, m, PartBody(body_text, m.end, NextStarts(body_text, m.end)))
    ELSE OtherPart(body_text, m, k, PartBody(body_text, m.end, NextStarts(body_text, m.end)))

\* the parts of the matches of pattern number k
ThreadParts(body_text, k, matches) ==
    [i \in 1..Len(matches) |-> ThreadPart(body_text, k, matches[i])]

\* the loop over the patterns from number k on: the first one that matches
\* gives the parts
RECURSIVE PartsFrom(_, _)
RECURSIVE PartsOr(_, _, _)

\* a loop that goes on to the other patterns and adds their parts
PartsOr_all_styles(body_text, k, matches) ==
    ThreadParts(body_text, k, matches) \o PartsFrom(body_text, k + 1)

PartsOr(body_text, k, matches) ==
    IF matches # <<>> THEN ThreadParts(body_text, k, matches) ELSE PartsFrom(body_text, k + 1)

PartsFrom(body_text, k) ==
    IF k > Len(patterns) THEN <<>> ELSE PartsOr(body_text, k, FindAll(patterns[k], body_text))

extract_thread_parts(body_text) == PartsFrom(body_text, 1)

\* dateutil.parser.parse(text) on the date texts of the model: a date and time
\* of the form "2024-01-02 10:00:00" is parsed; a text with a word that is no
\* date word raises, and the text is kept
DateObj(text, parsed) == IF parsed.kind = "datetime" THEN parsed ELSE DateStr(text)

\* date_obj of a part
PartDate(text) == IF text = <<>> THEN NoDate ELSE DateObj(text, StrpTime(text))

\* thread_email
ThreadEmail(part) ==
    Email(PartDate(part.date), part.from, part.to, part.cc, part.subject, part.body, <<>>)

\* has_body
HasBody(part) == part.body # <<>>

\* the records of the parts that have a body
ThreadEmails_with_body(parts) ==
    [i \in 1..Len(SelectSeq(parts, HasBody)) |-> ThreadEmail(SelectSeq(parts, HasBody)[i])]

ThreadEmails(parts) == [i \in 1..Len(parts) |-> ThreadEmail(parts[i])]

\* emails before deduplication: main_email is extract_email_parts(msg) and
\* embedded the messages of the message/rfc822 parts of a multipart/mixed msg
SegmentedEmails(main_email, embedded) ==
    IF embedded # <<>> THEN <<main_email>> \o embedded
    ELSE <<main_email>> \o ThreadEmails(extract_thread_parts(main_email.body))

(***************************************************************************)
(* Subject stripping: the calls                                            *)
(***************************************************************************)

\* the texts made of at most n pieces of the sequence toks
RECURSIVE TextsOf(_, _)
TextsOf(toks, n) ==
    IF n = 0 THEN {<<>>}
    ELSE LET shorter == TextsOf(toks, n - 1)
         IN  shorter \cup {t \o toks[k] : t \in shorter, k \in DOMAIN toks}

MaxSubjectTokens == 5

SubjectTokens ==
    << <<"R","e">>, <<"f","w">>, <<"F","W","D">>, <<":">>, <<" ">>, <<"x">> >>

SubjectInit ==
    /\ \E s \in TextsOf(SubjectTokens, MaxSubjectTokens) :
          subj = [pc |-> "call", subject |-> s, r |-> <<>>, rr |-> <<>>]
    /\ rcpt = Off /\ fp = Off /\ dd = Off /\ rend = Off /\ rt = Off /\ rev = Off /\ seg = Off
    /\ batch = Off /\ dec = Off /\ gui = Off

StripSubject ==
    /\ subj.pc = "call"
    /\ subj' = [subj EXCEPT !.pc = "stripped",
                            !.r = _strip_subject_prefixes(subj.subject)]
    /\ UNCHANGED <<rcpt, fp, dd, rend, rt, rev, seg, batch, dec, gui>>

StripSubjectAgain ==
    /\ subj.pc = "stripped"
    /\ subj' = [subj EXCEPT !.pc = "done",
                            !.rr = _strip_subject_prefixes(subj.r)]
    /\ UNCHANGED <<rcpt, fp, dd, rend, rt, rev, seg, batch, dec, gui>>

SubjectNext == StripSubject \/ StripSubjectAgain

SpecSubject == SubjectInit /\ [][SubjectNext]_vars

\* s begins with re, fw or fwd in any case, then optional white space, then a colon
BeginsWithPrefix(s) ==
    \E n \in {2, 3} :
        /\ Len(s) > n
        /\ [k \in 1..n |-> ToLower(s[k])] \in {<<"r","e">>, <<"f","w">>, <<"f","w","d">>}
        /\ \E c \in (n + 1)..Len(s) :
              /\ s[c] = ":"
              /\ \A k \in (n + 1)..(c - 1) : s[k] \in Space

\* C4: the result of _strip_subject_prefixes begins with no Re:/Fw:/Fwd: prefix,
\* and stripping it again returns it unchanged.
C4_StripIdempotent ==
    /\ subj.pc \in {"stripped", "done"} => ~BeginsWithPrefix(subj.r)
    /\ subj.pc = "done" => subj.rr = subj.r

\* a subject with two prefixes has been stripped, and stripped again
C4_Witness ==
    /\ subj.pc = "done"
    /\ BeginsWithPrefix(subj.subject)
    /\ Len(subj.subject) - Len(subj.r) >= 6
    /\ subj.r # <<>>

(***************************************************************************)
(* Recipient normalization: the call                                       *)
(***************************************************************************)

MaxRecipientTokens == 4

RecipientTokens ==
    << <<"B","o","b">>, <<"<","b","@","x",".","c","o",">">>, <<"a","@","x",".","c","o">>,
       <<"<">>, <<">">>, <<",">>, <<";">>, <<" ">>, <<"\n">> >>

\* "Alice <a@x.com>, Bob, <b@x.com>"
ExampleField ==
    <<"A","l","i","c","e"," ","<","a","@","x",".","c","o","m",">",","," ","B","o","b",","," ","<","b","@","x",".","c","o","m",">">>

\* ["Alice <a@x.com>", "Bob <b@x.com>"]
ExampleRecipients ==
    << <<"A","l","i","c","e"," ","<","a","@","x",".","c","o","m",">">>,
       <<"B","o","b"," ","<","b","@","x",".","c","o","m",">">> >>

RecipientInit ==
    /\ \E f \in TextsOf(RecipientTokens, MaxRecipientTokens) \cup {ExampleField} :
          rcpt = [pc |-> "call", field |-> f, uniq |-> <<>>]
    /\ subj = Off /\ fp = Off /\ dd = Off /\ rend = Off /\ rt = Off /\ rev = Off /\ seg = Off
    /\ batch = Off /\ dec = Off /\ gui = Off

ParseRecipients ==
    /\ rcpt.pc = "call"
    /\ rcpt' = [rcpt EXCEPT !.pc = "done", !.uniq = _parse_recipients_list(rcpt.field)]
    /\ UNCHANGED <<subj, fp, dd, rend, rt, rev, seg, batch, dec, gui>>

RecipientNext == ParseRecipients

SpecRecipient == RecipientInit /\ [][RecipientNext]_vars

\* C5: the list _parse_recipients_list returns has no duplicate entry, no empty
\* entry and no entry that starts with ',' or ';'; the example field of the
\* specification yields Alice and Bob, in this order.
C5_RecipientsNormalized ==
    rcpt.pc = "done" =>
        /\ \A i, j \in 1..Len(rcpt.uniq) : i # j => rcpt.uniq[i] # rcpt.uniq[j]
        /\ \A i \in 1..Len(rcpt.uniq) :
              /\ rcpt.uniq[i] # <<>>
              /\ rcpt.uniq[i][1] \notin {",", ";"}
        /\ rcpt.field = ExampleField => rcpt.uniq = ExampleRecipients

\* the example field has been parsed into its two recipients
C5_Witness ==
    /\ rcpt.pc = "done"
    /\ rcpt.field = ExampleField
    /\ Len(rcpt.uniq) = 2

(***************************************************************************)
(* Fingerprints: two records are fingerprinted                             *)
(***************************************************************************)

MaxTailLines == 2

\* the first lines of a body: five non-blank lines around a blank one, or four
HeadLines ==
    { << <<"a">>, <<>>, <<" ","b"," "," ","2","\t">>, <<"U","p">>, <<"d","\r">>, <<"e">> >>,
      << <<"a">>, <<"b">>, <<"U","p">>, <<"d">> >> }

\* the lines that may follow them
TailLines == << <<"f"," ","g">>, <<" ">> >>

RECURSIVE SeqsOf(_, _)
\* the sequences of at most n members of the sequence pool
SeqsOf(pool, n) ==
    IF n = 0 THEN {<<>>}
    ELSE LET shorter == SeqsOf(pool, n - 1)
         IN  shorter \cup {t \o <<pool[k]>> : t \in shorter, k \in DOMAIN pool}

FpBodies ==
    {Join(<<"\n">>, h \o t) : h \in HeadLines, t \in SeqsOf(TailLines, MaxTailLines)}

FpFrom == {<<>>, <<"A"," ","<","a","@","x",">">>}

FpSubject == {<<>>, <<"R","e",":"," ","U","p">>}

\* the fields the fingerprint is not meant to read: date, to, cc, attachments
FpBare == [date |-> NoDate, to |-> <<>>, cc |-> <<>>, attachments |-> <<>>]

FpFilled ==
    [date |-> DateTime(<<2024, 1, 2, 3, 4, 5>>, 0), to |-> <<"b","@","x">>,
     cc |-> <<"c","@","x">>, attachments |-> << <<"f",".","p","d","f">> >>]

FpRecords(others) ==
    {Email(o.date, f, o.to, o.cc, s, b, o.attachments) :
        o \in others, f \in FpFrom, s \in FpSubject, b \in FpBodies}

FingerprintInit ==
    /\ \E a \in FpRecords({FpBare}), b \in FpRecords({FpBare, FpFilled}) :
          fp = [pc |-> "call", a |-> a, b |-> b, ha |-> {}, hb |-> {}]
    /\ subj = Off /\ rcpt = Off /\ dd = Off /\ rend = Off /\ rt = Off /\ rev = Off /\ seg = Off
    /\ batch = Off /\ dec = Off /\ gui = Off

Fingerprint ==
    /\ fp.pc = "call"
    /\ fp' = [fp EXCEPT !.pc = "done", !.ha = email_feature_hash(fp.a),
                        !.hb = email_feature_hash(fp.b)]
    /\ UNCHANGED <<subj, rcpt, dd, rend, rt, rev, seg, batch, dec, gui>>

FingerprintNext == Fingerprint

SpecFingerprint == FingerprintInit /\ [][FingerprintNext]_vars

\* the lines of a body that hold a character other than white space
NonBlankLines(body) ==
    LET raw == SplitSet(body, {"\n"})
        keep == {k \in 1..Len(raw) : \E j \in 1..Len(raw[k]) : raw[k][j] \notin Space}
    IN  [n \in 1..Cardinality(keep) |->
            raw[CHOOSE k \in keep : Cardinality({j \in keep : j < k}) = n - 1]]

\* two records agree on from, on subject and on the first five non-blank lines
SameKey(a, b) ==
    /\ a.from = b.from
    /\ a.subject = b.subject
    /\ FirstN(NonBlankLines(a.body), 5) = FirstN(NonBlankLines(b.body), 5)

\* C10: two records with the same from, the same subject and the same first five
\* non-empty body lines have the same fingerprint, whatever their date, to, cc,
\* attachments and later body lines; a record compared with itself does too.
C10_FingerprintDependsOnKey ==
    fp.pc = "done" /\ SameKey(fp.a, fp.b) => fp.ha = fp.hb

\* two records that differ in date, to, cc, attachments and in the lines after
\* the fifth non-blank one have been fingerprinted
C10_Witness ==
    /\ fp.pc = "done"
    /\ SameKey(fp.a, fp.b)
    /\ fp.a.date # fp.b.date /\ fp.a.to # fp.b.to /\ fp.a.cc # fp.b.cc
    /\ fp.a.attachments # fp.b.attachments
    /\ Len(NonBlankLines(fp.a.body)) > 5
    /\ Len(NonBlankLines(fp.b.body)) > Len(NonBlankLines(fp.a.body))
    /\ fp.ha # {}

(***************************************************************************)
(* Deduplication: a call, and a call on its result                         *)
(***************************************************************************)

MaxEmails == 3

DdBody == <<"o","n","e"," ","t","w","o","\n","t","h","r","e","e"," ","f","o","u","r">>

\* records about one message (some near one another, some with the same
\* fingerprint), and unrelated ones
DdRecords ==
    << Email(DateTime(<<2024, 1, 2, 10, 0, 0>>, 0), <<"a","@","x">>, <<>>, <<>>,
             <<"U","p">>, DdBody, <<>>),
       Email(DateTimeTz(<<2024, 1, 2, 12, 0, 0>>, 0, 2), <<"a","@","x">>, <<>>, <<>>,
             <<"U","p">>, SubSeq(DdBody, 1, 14) \o <<"f","i","v","e">>, <<>>),
       Email(NoDate, <<"a","@","x">>, <<"t">>, <<>>,
             <<"U","p">>, <<"o","n","e"," "," ","t","w","o","\n","\n">> \o SubSeq(DdBody, 9, 18), <<>>),
       Email(DateStr(<<"T","u","e">>), <<"b","@","y">>, <<>>, <<>>, <<"G","o">>, <<"s","i","x">>, <<>>),
       Email(DateTimeTz(<<2023, 12, 31, 23, 30, 0>>, 0, -1), <<>>, <<>>, <<>>, <<>>, <<>>, <<>>),
       Email(DateTime(<<2024, 1, 3, 9, 0, 0>>, 5), <<"a","@","x">>, <<>>, <<>>,
             <<"R","e",":"," ","U","p">>, DdBody, <<>>) >>

Thresholds == {-1, 0, 4, 8, 16}

DedupInit ==
    /\ \E l \in SeqsOf(DdRecords, MaxEmails), t \in Thresholds :
          dd = [pc |-> "call", given |-> l, emails |-> l, threshold |-> t,
                out |-> <<>>, out2 |-> <<>>]
    /\ subj = Off /\ rcpt = Off /\ fp = Off /\ rend = Off /\ rt = Off /\ rev = Off /\ seg = Off
    /\ batch = Off /\ dec = Off /\ gui = Off

\* deduplicate_emails(emails, threshold): the dates of the list's records are
\* normalized in place
Dedup ==
    /\ dd.pc = "call"
    /\ dd' = [dd EXCEPT !.pc = "deduped",
                        !.emails = NormalizeDates(dd.emails),
                        !.out = deduplicate_emails(dd.emails, dd.threshold)]
    /\ UNCHANGED <<subj, rcpt, fp, rend, rt, rev, seg, batch, dec, gui>>

\* deduplicate_emails on the list the first call returned
DedupAgain ==
    /\ dd.pc = "deduped"
    /\ dd' = [dd EXCEPT !.pc = "done", !.out2 = deduplicate_emails(dd.out, dd.threshold)]
    /\ UNCHANGED <<subj, rcpt, fp, rend, rt, rev, seg, batch, dec, gui>>

DedupNext == Dedup \/ DedupAgain

SpecDedup == DedupInit /\ [][DedupNext]_vars

\* the ways to find each entry of out at a position of its own in emails
Placements(out, emails) ==
    {f \in [1..Len(out) -> 1..Len(emails)] :
        /\ \A k \in 1..Len(out) : out[k] = emails[f[k]]
        /\ \A j, k \in 1..Len(out) : j # k => f[j] # f[k]}

\* C2: the list deduplicate_emails returns is no longer than the list given,
\* and its records are records of that list, each taken at most once.
C2_DedupSubList ==
    dd.pc # "call" =>
        /\ Len(dd.out) <= Len(dd.given)
        /\ Placements(dd.out, dd.emails) # {}

\* of three records two have been kept and one absorbed
C2_Witness ==
    /\ dd.pc = "deduped"
    /\ Len(dd.given) = 3
    /\ Len(dd.out) = 2
    /\ dd.threshold = 8

\* C3: deduplicating the list a call returned, with the same threshold, returns
\* that list.
C3_DedupIdempotent == dd.pc = "done" => dd.out2 = dd.out

\* a list of three records, one absorbed, has been deduplicated again; the two
\* records kept have the same sort key
C3_Witness ==
    /\ dd.pc = "done"
    /\ Len(dd.given) = 3
    /\ Len(dd.out) = 2
    /\ DateKey(dd.out[1]) = DateKey(dd.out[2])
    /\ dd.out2 = dd.out

(***************************************************************************)
(* Rendering: a call of create_markdown_content                            *)
(***************************************************************************)

MaxRendered == 3

\* records with a timestamp (two of them the same, one datetime.min), with no
\* date and with a date text that is no timestamp
RdRecords ==
    << Email(DateTime(<<2024, 1, 2, 10, 0, 0>>, 0), <<"a","@","x">>, <<"t">>, <<>>,
             <<"U","p">>, <<"h","i">>, <<>>),
       Email(DateTime(<<2024, 1, 3, 9, 0, 0>>, 0), <<"b","@","y">>, <<"t">>, <<"c","@","x">>,
             <<"R","e",":"," ","U","p">>, <<" ","y","o","\n">>, << <<"f",".","p","d","f">> >>),
       Email(DateTime(<<2024, 1, 2, 10, 0, 0>>, 0), <<"c","@","z">>, <<>>, <<>>,
             <<"U","p">>, <<"o","k">>, <<>>),
       Email(NoDate, <<"d","@","w">>, <<"t">>, <<>>, <<"G","o">>, <<"n","o">>, <<>>),
       Email(DateStr(<<"T","u","e">>), <<"e","@","v">>, <<"t">>, <<>>, <<"H","m">>, <<"e","h">>, <<>>),
       Email(DateTimeMin, <<"f","@","u">>, <<"t">>, <<>>, <<"O","l","d">>, <<"l","o">>, <<>>) >>

RenderInit ==
    /\ \E l \in SeqsOf(RdRecords, MaxRendered), nf \in BOOLEAN :
          rend = [pc |-> "call", emails |-> l, newest_first |-> nf, doc |-> <<>>]
    /\ subj = Off /\ rcpt = Off /\ fp = Off /\ dd = Off /\ rt = Off /\ rev = Off /\ seg = Off
    /\ batch = Off /\ dec = Off /\ gui = Off

Render ==
    /\ rend.pc = "call"
    /\ rend' = [rend EXCEPT !.pc = "done",
                            !.doc = create_markdown_content(rend.emails, rend.newest_first)]
    /\ UNCHANGED <<subj, rcpt, fp, dd, rt, rev, seg, batch, dec, gui>>

RenderNext == Render

SpecRender == RenderInit /\ [][RenderNext]_vars

\* the orders of the records in which the document is the title followed by
\* their sections, numbered from 1: f[k] is the record of section k
SectionOrders(doc, emails) ==
    {f \in [1..Len(emails) -> 1..Len(emails)] :
        /\ \A j, k \in 1..Len(emails) : j # k => f[j] # f[k]
        /\ doc = RenderInOrder(emails, f)}

HasTimestamp(email) == email.date.kind = "datetime"

\* section j does not come after section k in the direction asked for
InDateOrder(a, b, newest_first) ==
    IF newest_first THEN ~DateLess(a.date, b.date) ELSE ~DateLess(b.date, a.date)

\* C6: the document is the sections of the input records, each once, numbered
\* from 1; the dates of the sections do not decrease when newest_first is false
\* and do not increase when it is true; of two records with different timestamps
\* the earlier is section 1 when newest_first is false, the later when it is true.
C6_SectionsInDateOrder ==
    rend.pc = "done" =>
        \E f \in SectionOrders(rend.doc, rend.emails) :
            /\ \A j, k \in 1..Len(rend.emails) :
                  (j < k /\ HasTimestamp(rend.emails[f[j]]) /\ HasTimestamp(rend.emails[f[k]]))
                      => InDateOrder(rend.emails[f[j]], rend.emails[f[k]], rend.newest_first)
            /\ (/\ Len(rend.emails) = 2
                /\ HasTimestamp(rend.emails[1]) /\ HasTimestamp(rend.emails[2])
                /\ rend.emails[1].date # rend.emails[2].date)
                  => IF rend.newest_first
                     THEN DateLess(rend.emails[f[2]].date, rend.emails[f[1]].date)
                     ELSE DateLess(rend.emails[f[1]].date, rend.emails[f[2]].date)

\* two records, the later given first, have been rendered oldest first
C6_Witness ==
    /\ rend.pc = "done"
    /\ ~rend.newest_first
    /\ Len(rend.emails) = 2
    /\ HasTimestamp(rend.emails[1]) /\ HasTimestamp(rend.emails[2])
    /\ DateLess(rend.emails[2].date, rend.emails[1].date)
    /\ SectionOrders(rend.doc, rend.emails) = {<<2, 1>>}

\* C7 as stated: in both directions every record without a date is placed
\* before every record with one.
C7_UndatedFirstBothWays ==
    rend.pc = "done" =>
        \A f \in SectionOrders(rend.doc, rend.emails) :
            \A j, k \in 1..Len(rend.emails) :
                (rend.emails[f[j]].date.kind = "none" /\ HasTimestamp(rend.emails[f[k]]))
                    => j < k

\* C7: a record without a timestamp sorts as one dated datetime.min: it is
\* placed before every record dated later than that when newest_first is false,
\* after every such record when newest_first is true, and it keeps its input
\* order with a record dated datetime.min.
C7_UndatedSortAsMinimum ==
    rend.pc = "done" =>
        \E f \in SectionOrders(rend.doc, rend.emails) :
            \A j, k \in 1..Len(rend.emails) :
                (~HasTimestamp(rend.emails[f[j]]) /\ HasTimestamp(rend.emails[f[k]]))
                    => IF rend.emails[f[k]].date = DateTimeMin
                       THEN (j < k) = (f[j] < f[k])
                       ELSE (j < k) = ~rend.newest_first

\* a dated record and a record without a date have been rendered newest first
C7_Witness ==
    /\ rend.pc = "done"
    /\ rend.newest_first
    /\ Len(rend.emails) = 2
    /\ rend.emails[1].date.kind = "none"
    /\ HasTimestamp(rend.emails[2]) /\ rend.emails[2].date # DateTimeMin
    /\ SectionOrders(rend.doc, rend.emails) = {<<2, 1>>}

(***************************************************************************)
(* Reverse parsing: a call of parse_emails on a rendered record            *)
(***************************************************************************)

MaxContentTokens == 4

\* 6 underscores
Underscores6 == [k \in 1..6 |-> "_"]

\* pieces of a body: text, line ends, six underscores, the separator token
ContentTokens == << <<"h","i">>, <<"\n">>, Underscores6, token, <<" ">> >>

\* content, a line of 40 underscores, quoted history
ExampleBody == <<"h","i","\n">> \o token \o Underscores6 \o <<"_","_","\n","o","l","d">>

\* the document of one record with the body given
DocOf(body) ==
    create_markdown_content(
        <<Email(DateTime(<<2024, 1, 2, 10, 0, 0>>, 0), <<"a","@","x">>, <<"t","o">>, <<>>,
                <<"U","p">>, body, <<>>)>>, FALSE)

ReverseInit ==
    /\ \E b \in TextsOf(ContentTokens, MaxContentTokens) \cup {ExampleBody} :
          rev = [pc |-> "call", body |-> b, md_text |-> DocOf(b), emails |-> <<>>]
    /\ subj = Off /\ rcpt = Off /\ fp = Off /\ dd = Off /\ rend = Off /\ rt = Off /\ seg = Off
    /\ batch = Off /\ dec = Off /\ gui = Off

ParseEmails ==
    /\ rev.pc = "call"
    /\ rev' = [rev EXCEPT !.pc = "done", !.emails = parse_emails(rev.md_text)]
    /\ UNCHANGED <<subj, rcpt, fp, dd, rend, rt, seg, batch, dec, gui>>

ReverseNext == ParseEmails

SpecReverse == ReverseInit /\ [][ReverseNext]_vars

\* the offsets of the lines of raw that begin with six underscores
UnderscoreLines(raw) ==
    {p \in 0..(Len(raw) - 6) :
        /\ p = 0 \/ raw[p] = "\n"
        /\ \A k \in 1..6 : raw[p + k] = "_"}

\* the offsets of the occurrences of the 32-underscore token in raw
TokenOffsets(raw) == {p \in 0..(Len(raw) - 32) : \A k \in 1..32 : raw[p + k] = "_"}

\* raw cut at the least offset of marks, trailing white space removed; raw
\* itself when marks is empty
CutAtFirst(raw, marks) ==
    IF marks = {} THEN raw ELSE RStrip(SubSeq(raw, 1, SetMin(marks)))

\* the document of a record with some body text has been parsed into one record
ParsedOne == rev.pc = "done" /\ Strip(rev.body) # <<>> /\ Len(rev.emails) = 1

\* C8 as stated: the content is cut at whichever comes first of the first line
\* beginning with six or more underscores and the first occurrence of the
\* 32-underscore token; it is kept in full if there is neither.
C8_CutAtFirstMarker ==
    (rev.pc = "done" /\ Strip(rev.body) # <<>>) =>
        /\ Len(rev.emails) = 1
        /\ rev.emails[1].content =
              CutAtFirst(Strip(rev.body),
                         UnderscoreLines(Strip(rev.body)) \cup TokenOffsets(Strip(rev.body)))

\* C8: the content is cut at the first line beginning with six or more
\* underscores if there is such a line; if there is none, at the first
\* occurrence of the 32-underscore token; if there is neither it is kept in
\* full.  Content followed by a line of 40 underscores and quoted history is cut
\* before that line.
C8_CutAtLineElseToken ==
    (rev.pc = "done" /\ Strip(rev.body) # <<>>) =>
        /\ Len(rev.emails) = 1
        /\ rev.emails[1].content =
              IF UnderscoreLines(Strip(rev.body)) # {}
              THEN CutAtFirst(Strip(rev.body), UnderscoreLines(Strip(rev.body)))
              ELSE CutAtFirst(Strip(rev.body), TokenOffsets(Strip(rev.body)))
        /\ rev.body = ExampleBody => rev.emails[1].content = <<"h","i">>

\* a body with the token inside a line, before a line of underscores, has been
\* parsed
C8_Witness ==
    /\ ParsedOne
    /\ UnderscoreLines(Strip(rev.body)) # {}
    /\ TokenOffsets(Strip(rev.body)) # {}
    /\ SetMin(TokenOffsets(Strip(rev.body))) < SetMin(UnderscoreLines(Strip(rev.body)))
    /\ rev.emails[1].content # <<>>

(***************************************************************************)
(* Round trip: create_markdown_content, then parse_emails on its result    *)
(***************************************************************************)

MaxThread == 2

RtDates == {DateTime(<<2024, 1, 2, 10, 0, 0>>, 0), DateTime(<<2024, 1, 3, 9, 5, 7>>, 0)}

RtSubjects == {<<"U","p">>, <<"R","e",":"," ","U","p">>}

\* bodies without a quoted-history separator; one of them is empty
RtBodies == {<<>>, <<"h","i">>, <<" ","h","i","\n","y","o","\n">>}

\* the records a thread is made of
RtRecords ==
    {Email(d, <<"a","@","x">>, <<"t","o">>, <<>>, sj, b, <<>>) :
        d \in RtDates, sj \in RtSubjects, b \in RtBodies}

\* the threads of at most n records
RECURSIVE ThreadsOf(_)
ThreadsOf(n) ==
    IF n = 0 THEN {<<>>}
    ELSE LET shorter == ThreadsOf(n - 1)
         IN  shorter \cup {t \o <<e>> : t \in shorter, e \in RtRecords}

RoundTripInit ==
    /\ \E l \in ThreadsOf(MaxThread) :
          rt = [pc |-> "start", emails |-> l, md_text |-> <<>>, parsed |-> <<>>]
    /\ subj = Off /\ rcpt = Off /\ fp = Off /\ dd = Off /\ rend = Off /\ rev = Off /\ seg = Off
    /\ batch = Off /\ dec = Off /\ gui = Off

\* eml2md.py: the document is rendered, oldest or newest first
RenderThread ==
    /\ rt.pc = "start"
    /\ \E nf \in BOOLEAN :
          rt' = [rt EXCEPT !.pc = "rendered",
                           !.md_text = create_markdown_content(rt.emails, nf)]
    /\ UNCHANGED <<subj, rcpt, fp, dd, rend, rev, seg, batch, dec, gui>>

\* read_md_email.py: the document is parsed
ParseDocument ==
    /\ rt.pc = "rendered"
    /\ rt' = [rt EXCEPT !.pc = "parsed", !.parsed = parse_emails(rt.md_text)]
    /\ UNCHANGED <<subj, rcpt, fp, dd, rend, rev, seg, batch, dec, gui>>

RoundTripNext == RenderThread \/ ParseDocument

SpecRoundTrip == RoundTripInit /\ [][RoundTripNext]_vars

\* the parsed record p carries the from, subject, date and trimmed body of e
SameMessage(p, e) ==
    /\ p.from = e.from
    /\ p.subject = e.subject
    /\ p.date = e.date
    /\ p.content = Strip(e.body)

\* the one-to-one correspondences between the positions 1..n
Bijections(n) == {f \in [1..n -> 1..n] : \A i, j \in 1..n : f[i] = f[j] => i = j}

\* C1 as stated: parsing the rendered thread yields one record per input
\* record, and each parsed record has the from, subject, date and trimmed body
\* of its input record.
C1_RoundTrip ==
    rt.pc = "parsed" =>
        /\ Len(rt.parsed) = Len(rt.emails)
        /\ \E f \in Bijections(Len(rt.emails)) :
              \A i \in 1..Len(rt.emails) : SameMessage(rt.parsed[i], rt.emails[f[i]])

(***************************************************************************)
(* Segmentation: the emails of a container before deduplication            *)
(***************************************************************************)

MaxPieces == 3

\* "hi\n"
PlainText == <<"h","i","\n">>

\* "From: a\nSent: 2024-01-02 10:00:00\nTo: b\nSubject: s\n"
OutlookHeader ==
    <<"F","r","o","m",":"," ","a","\n","S","e","n","t",":"," ","2","0","2","4","-","0","1",
       "-","0","2"," ","1","0",":","0","0",":","0","0","\n","T","o",":"," ","b","\n","S",
       "u","b","j","e","c","t",":"," ","s","\n">>

\* "From: c\nSent: soon\nTo: b\nCc: d\nSubject: t\n"
OutlookHeaderCc ==
    <<"F","r","o","m",":"," ","c","\n","S","e","n","t",":"," ","s","o","o","n","\n","T",
       "o",":"," ","b","\n","C","c",":"," ","d","\n","S","u","b","j","e","c","t",":"," ",
       "t","\n">>

\* "On Mon, Al wrote:\n"
WroteHeader ==
    <<"O","n"," ","M","o","n",","," ","A","l"," ","w","r","o","t","e",":","\n">>

\* "On Tue at 5, Bo wrote:\n"
GmailHeader ==
    <<"O","n"," ","T","u","e"," ","a","t"," ","5",","," ","B","o"," ","w","r","o","t","e",
       ":","\n">>

\* what the body of a container is made of: text and quoted-reply headers
Pieces == <<PlainText, OutlookHeader, OutlookHeaderCc, WroteHeader, GmailHeader>>

\* the text of the pieces numbered by ps
RECURSIVE BodyOf(_)
BodyOf(ps) == IF ps = <<>> THEN <<>> ELSE Pieces[Head(ps)] \o BodyOf(Tail(ps))

\* the sequences of at most n piece numbers
RECURSIVE PieceSeqs(_)
PieceSeqs(n) ==
    IF n = 0 THEN {<<>>}
    ELSE LET shorter == PieceSeqs(n - 1)
         IN  shorter \cup {t \o <<k>> : t \in shorter, k \in DOMAIN Pieces}

\* extract_email_parts(msg) of a container with the body given
MainEmail(body) ==
    Email(DateTime(<<2024, 1, 3, 9, 0, 0>>, 0), <<"m","@","x">>, <<"t","o">>, <<>>,
          <<"U","p">>, body, <<>>)

\* the messages embedded in a forwarded thread
EmbeddedEmail ==
    Email(DateTime(<<2024, 1, 1, 8, 0, 0>>, 0), <<"e","@","x">>, <<"m","@","x">>, <<>>,
          <<"U","p">>, <<"o","l","d">>, <<>>)

SegmentInit ==
    /\ \E ps \in PieceSeqs(MaxPieces), emb \in {<<>>, <<EmbeddedEmail>>} :
          seg = [pc |-> "call", pieces |-> ps, main_email |-> MainEmail(BodyOf(ps)),
                 embedded |-> emb, emails |-> <<>>]
    /\ subj = Off /\ rcpt = Off /\ fp = Off /\ dd = Off /\ rend = Off /\ rt = Off /\ rev = Off
    /\ batch = Off /\ dec = Off /\ gui = Off

Segment ==
    /\ seg.pc = "call"
    /\ seg' = [seg EXCEPT !.pc = "done",
                          !.emails = SegmentedEmails(seg.main_email, seg.embedded)]
    /\ UNCHANGED <<subj, rcpt, fp, dd, rend, rt, rev, batch, dec, gui>>

SegmentNext == Segment

SpecSegment == SegmentInit /\ [][SegmentNext]_vars

\* the numbers of the Outlook-style pieces and of the "On ... wrote:" pieces
OutlookPieces == {2, 3}

WrotePieces == {4, 5}

IsOutlook(k) == k \in OutlookPieces

IsWrote(k) == k \in WrotePieces

\* the headers of the winning style among the pieces ps, in text order: the
\* Outlook-style ones if there is one, the "On ... wrote:" ones otherwise
WinningHeaders(ps) ==
    IF SelectSeq(ps, IsOutlook) # <<>> THEN SelectSeq(ps, IsOutlook) ELSE SelectSeq(ps, IsWrote)

\* the sender the segmenter reads from the header piece k
HeaderSender(k) ==
    CASE k = 2 -> <<"a">>
      [] k = 3 -> <<"c">>
      [] k = 4 -> <<"M","o","n">>
      [] OTHER -> <<"T","u","e"," ","a","t"," ","5">>

\* a container without embedded messages has been segmented
SegmentedHeuristically == seg.pc = "done" /\ seg.embedded = <<>>

\* C9: a container without embedded messages whose body holds k quoted-reply
\* headers of the winning style gives 1 + k records: the container first, then
\* one per header in text order, whatever their bodies and date texts; one
\* From/Sent/To/Subject block gives 2 records.
C9_SegmentCount ==
    SegmentedHeuristically =>
        /\ Len(seg.emails) = 1 + Len(WinningHeaders(seg.pieces))
        /\ seg.emails[1] = seg.main_email
        /\ \A i \in 1..Len(WinningHeaders(seg.pieces)) :
              seg.emails[1 + i].from = HeaderSender(WinningHeaders(seg.pieces)[i])
        /\ Len(SelectSeq(seg.pieces, IsOutlook)) = 1 => Len(seg.emails) = 2

\* a container has been segmented into three segments or more, one of them
\* with an empty body and one with a date text that is not a date
C9_Witness ==
    /\ SegmentedHeuristically
    /\ Len(seg.emails) >= 3
    /\ \E i \in 2..Len(seg.emails) : seg.emails[i].body = <<>>
    /\ \E i \in 2..Len(seg.emails) : seg.emails[i].date.kind = "str"

(***************************************************************************)
(* SimHash of two texts that differ in one word                            *)
(***************************************************************************)

MaxWords == 3

SimWords == << <<"h","i">>, <<"y","o">>, <<"o","k">>, <<"u","p">> >>

\* the default of deduplicate_emails(emails, threshold=8)
DefaultThreshold == 8

\* the word lists ws with the word at position i replaced by another word
OneWordChanged(ws) ==
    {[ws EXCEPT ![i] = SimWords[k]] : i \in DOMAIN ws, k \in DOMAIN SimWords} \ {ws}

SimhashInit ==
    /\ \E ws \in SeqsOf(SimWords, MaxWords) \ {<<>>} : \E vs \in OneWordChanged(ws) :
          fp = [pc |-> "texts", a |-> Join(<<" ">>, ws), b |-> Join(<<" ">>, vs),
                ha |-> {}, hb |-> {}, distance |-> -1]
    /\ subj = Off /\ rcpt = Off /\ dd = Off /\ rend = Off /\ rt = Off /\ rev = Off /\ seg = Off
    /\ batch = Off /\ dec = Off /\ gui = Off

\* hamming_distance(simhash(a), simhash(b))
SimhashDistance ==
    /\ fp.pc = "texts"
    /\ fp' = [fp EXCEPT !.pc = "compared", !.ha = simhash(fp.a), !.hb = simhash(fp.b),
                        !.distance = hamming_distance(simhash(fp.a), simhash(fp.b))]
    /\ UNCHANGED <<subj, rcpt, dd, rend, rt, rev, seg, batch, dec, gui>>

SimhashNext == SimhashDistance

SpecSimhash == SimhashInit /\ [][SimhashNext]_vars

\* C11 as stated: two texts that differ in exactly one word have fingerprints
\* at a Hamming distance below the default threshold 8.
C11_OneWordBelowThreshold == fp.pc = "compared" => fp.distance < DefaultThreshold

(***************************************************************************)
(* Batch conversion: main of eml2md.py and convert_files of run_gui.py     *)
(***************************************************************************)

MaxFiles == 3

\* s.lower().endswith('.eml')
IsEmlName(s) ==
    /\ Len(s) >= 4
    /\ [k \in 1..4 |-> ToLower(s[Len(s) - 4 + k])] = <<".","e","m","l">>

FileNames == {<<"a",".","e","m","l">>, <<"b",".","E","M","L">>, <<"c",".","t","x","t">>}

\* what process_eml_file raises on a file: nothing (<<>>) or an exception
\* with this text
Causes == {<<>>, <<"b","a","d">>}

\* a file of a batch: its name and what process_eml_file raises on it
BatchFiles == [filename : FileNames, cause : Causes]

\* the lists of at most n files
RECURSIVE FileLists(_)
FileLists(n) ==
    IF n = 0 THEN {<<>>}
    ELSE LET shorter == FileLists(n - 1)
         IN  shorter \cup {t \o <<f>> : t \in shorter, f \in BatchFiles}

\* the outcome of a batch: the files process_eml_file was called on, those
\* converted, the failures reported and how the handler ended
Outcome(attempted, converted, errors, status) ==
    [attempted |-> attempted, converted |-> converted, errors |-> errors, status |-> status]

\* f"Error processing {filename}: {str(e)}"
ErrorOf(file) == [filename |-> file.filename, cause |-> file.cause]

\* eml2md.py main: the loop over os.listdir(input_dir) from file k on, o being
\* the outcome so far
RECURSIVE MainLoop(_, _, _)
MainLoop(files, k, o) ==
    IF k > Len(files) THEN o
    ELSE IF ~IsEmlName(files[k].filename) THEN MainLoop(files, k + 1, o)
    ELSE IF files[k].cause = <<>>
    THEN MainLoop(files, k + 1,
                  Outcome(Append(o.attempted, files[k].filename),
                          Append(o.converted, files[k].filename), o.errors, o.status))
    ELSE MainLoop(files, k + 1,
                  Outcome(Append(o.attempted, files[k].filename), o.converted,
                          Append(o.errors, ErrorOf(files[k])), o.status))

\* run_gui.py convert_files: the loop "Process each EML file" from file k on;
\* the first failure raises HTTPException(500) out of the handler
RECURSIVE ConvertLoop(_, _, _)
ConvertLoop(files, k, o) ==
    IF k > Len(files) THEN Outcome(o.attempted, o.converted, o.errors, "success")
    ELSE IF files[k].cause = <<>>
    THEN ConvertLoop(files, k + 1,
                     Outcome(Append(o.attempted, files[k].filename),
                             Append(o.converted, files[k].filename), o.errors, o.status))
    ELSE Outcome(Append(o.attempted, files[k].filename), o.converted,
                 Append(o.errors, ErrorOf(files[k])), "HTTP 500")

\* run_gui.py convert_files: no file, or a file that is no .eml, raises
\* HTTPException(400) before any file is processed
ConvertOutcome(files) ==
    IF files = <<>> \/ \E k \in DOMAIN files : ~IsEmlName(files[k].filename)
    THEN Outcome(<<>>, <<>>, <<>>, "HTTP 400")
    ELSE ConvertLoop(files, 1, Outcome(<<>>, <<>>, <<>>, "running"))

BatchInit ==
    /\ \E fs \in FileLists(MaxFiles), h \in {"main", "convert_files"} :
          batch = [pc |-> "start", handler |-> h, files |-> fs,
                   outcome |-> Outcome(<<>>, <<>>, <<>>, "running")]
    /\ subj = Off /\ rcpt = Off /\ fp = Off /\ dd = Off /\ rend = Off /\ rt = Off /\ rev = Off
    /\ seg = Off /\ dec = Off /\ gui = Off

\* python eml2md.py
Main ==
    /\ batch.pc = "start" /\ batch.handler = "main"
    /\ batch' = [batch EXCEPT !.pc = "done",
                    !.outcome = MainLoop(batch.files, 1, Outcome(<<>>, <<>>, <<>>, "exit 0"))]
    /\ UNCHANGED <<subj, rcpt, fp, dd, rend, rt, rev, seg, dec, gui>>

\* POST /convert
ConvertFiles ==
    /\ batch.pc = "start" /\ batch.handler = "convert_files"
    /\ batch' = [batch EXCEPT !.pc = "done", !.outcome = ConvertOutcome(batch.files)]
    /\ UNCHANGED <<subj, rcpt, fp, dd, rend, rt, rev, seg, dec, gui>>

BatchNext == Main \/ ConvertFiles

SpecBatch == BatchInit /\ [][BatchNext]_vars

\* the names of the .eml files of the batch, in order
RECURSIVE EmlNames(_)
EmlNames(files) ==
    IF files = <<>> THEN <<>>
    ELSE (IF IsEmlName(Head(files).filename) THEN <<Head(files).filename>> ELSE <<>>)
         \o EmlNames(Tail(files))

\* the failures of the .eml files of the batch, in order
RECURSIVE EmlFailures(_)
EmlFailures(files) ==
    IF files = <<>> THEN <<>>
    ELSE (IF IsEmlName(Head(files).filename) /\ Head(files).cause # <<>>
          THEN <<ErrorOf(Head(files))>> ELSE <<>>)
         \o EmlFailures(Tail(files))

\* C12 as stated: in a batch of .eml files, under main and under convert_files,
\* every file is attempted whatever fails on the others, and every failure is
\* reported with the name of its file and its cause.
C12_FailureIsolated ==
    (batch.pc = "done" /\ \A k \in DOMAIN batch.files : IsEmlName(batch.files[k].filename)) =>
        /\ batch.outcome.attempted = EmlNames(batch.files)
        /\ batch.outcome.errors = EmlFailures(batch.files)

(***************************************************************************)
(* Conversion of one file: main, process_eml_file and the threshold        *)
(***************************************************************************)

MaxEmbedded == 2

\* what process_eml_file has computed when it returns
Converted(emails, unique_emails, newest_first) ==
    [emails |-> emails, unique_emails |-> unique_emails,
     markdown_content |-> create_markdown_content(unique_emails, newest_first)]

\* process_eml_file from "Deduplicate emails using SimHash" on: the call
\* deduplicate_emails(emails) leaves the threshold to its default
ConvertEmails(emails, newest_first) ==
    Converted(emails, deduplicate_emails(emails, DefaultThreshold), newest_first)

\* process_eml_file(eml_file_path, newest_first), msg being the parsed file
process_eml_file(msg, newest_first) ==
    ConvertEmails(SegmentedEmails(msg.main_email, msg.embedded), newest_first)

\* main on one input file: args.dedup_threshold is parsed and not passed on
MainOnFile(args, msg) == process_eml_file(msg, args.newest_first)

\* the values of --dedup-threshold tried; the scale of the GUI runs from 1 to 20
UserThresholds == {1, 4, 8, 16}

\* extract_email_parts gives a timestamp or None for the date
IsExtracted(email) == email.date.kind # "str"

\* the parsed input files: a main message and its message/rfc822 parts, or a
\* main message with quoted replies in its body
InputFiles ==
    {[main_email |-> DdRecords[m], embedded |-> e] :
        m \in {1, 5}, e \in SeqsOf(SelectSeq(DdRecords, IsExtracted), MaxEmbedded)}
    \cup {[main_email |-> MainEmail(BodyOf(ps)), embedded |-> <<>>] : ps \in PieceSeqs(MaxEmbedded)}

ThresholdInit ==
    /\ \E msg \in InputFiles, t \in UserThresholds, nf \in BOOLEAN,
          h \in {"command line", "gui_tkinter"} :
          batch = [pc |-> h, msg |-> msg,
                   args |-> [newest_first |-> nf, dedup_threshold |-> t],
                   result |-> Converted(<<>>, <<>>, nf)]
    /\ subj = Off /\ rcpt = Off /\ fp = Off /\ dd = Off /\ rend = Off /\ rt = Off /\ rev = Off
    /\ seg = Off /\ dec = Off /\ gui = Off

\* python eml2md.py [--newest-first] --dedup-threshold t
MainWithArgs ==
    /\ batch.pc = "command line"
    /\ batch' = [batch EXCEPT !.pc = "done", !.result = MainOnFile(batch.args, batch.msg)]
    /\ UNCHANGED <<subj, rcpt, fp, dd, rend, rt, rev, seg, dec, gui>>

\* gui_tkinter.py EMLConverterGUI.convert_files: the command line is built from
\* self.newest_first and self.dedup_threshold and run as a subprocess
GuiConvertFiles ==
    /\ batch.pc = "gui_tkinter"
    /\ batch' = [batch EXCEPT !.pc = "done", !.result = MainOnFile(batch.args, batch.msg)]
    /\ UNCHANGED <<subj, rcpt, fp, dd, rend, rt, rev, seg, dec, gui>>

ThresholdNext == MainWithArgs \/ GuiConvertFiles

SpecThreshold == ThresholdInit /\ [][ThresholdNext]_vars

\* C13 as stated: the threshold the user supplies is the one deduplication uses
\* when a file is converted: the records kept are those deduplicate_emails
\* keeps with that threshold.
C13_UserThresholdUsed ==
    batch.pc = "done" =>
        batch.result.unique_emails =
            deduplicate_emails(batch.result.emails, batch.args.dedup_threshold)

\* the texts of the Date lines of a document
DateTexts(md_text) ==
    {_clean_ws(GroupText(md_text, m, 1)) :
        m \in Range(FindAll(RE_line_field(<<"D","a","t","e">>), md_text))}

\* a date that is a timestamp or absent
ValidOrAbsent(date) == date.kind \in {"datetime", "none"}

\* C14 as stated: every record the segmentation produces and every record that
\* reaches the deduplicator and the renderer has a date that is a timestamp or
\* absent, and no Date line of the document carries a text that is no timestamp.
C14_DateValidOrAbsent ==
    batch.pc = "done" =>
        /\ \A i \in DOMAIN batch.result.emails : ValidOrAbsent(batch.result.emails[i].date)
        /\ \A i \in DOMAIN batch.result.unique_emails :
              ValidOrAbsent(batch.result.unique_emails[i].date)
        /\ \A t \in DateTexts(batch.result.markdown_content) : StrpTime(t).kind = "datetime"

(***************************************************************************)
(* eml2md.py: decode_content                                               *)
(***************************************************************************)

MaxBytes == 3

\* bytes.decode gives a text (a sequence of code points) or raises
Decoded(text) == [kind |-> "text", text |-> text, exc |-> ""]

Raised(exc) == [kind |-> "raise", text |-> <<>>, exc |-> exc]

\* the bytes of a UTF-8 sequence of two bytes
IsLead2(b) == b >= 194 /\ b <= 223

IsContinuation(b) == b >= 128 /\ b <= 191

\* the bytes at which a character of one or two bytes begins, or an invalid
\* byte stands; content holds no lead byte of a longer sequence
IsPair(content, k) ==
    k < Len(content) /\ IsLead2(content[k]) /\ IsContinuation(content[k + 1])

\* bytes that are no part of a character: neither ASCII nor in a valid pair
IsInvalidAt(content, k) ==
    /\ content[k] >= 128
    /\ ~IsPair(content, k)
    /\ ~(k > 1 /\ IsPair(content, k - 1))

\* content.decode('utf-8', errors='ignore') from byte k on
RECURSIVE Utf8Ignore(_, _)
Utf8Ignore(content, k) ==
    IF k > Len(content) THEN <<>>
    ELSE IF content[k] < 128 THEN <<content[k]>> \o Utf8Ignore(content, k + 1)
    ELSE IF IsPair(content, k)
    THEN <<(content[k] - 192) * 64 + (content[k + 1] - 128)>> \o Utf8Ignore(content, k + 2)
    ELSE Utf8Ignore(content, k + 1)

\* content.decode(charset); no codec is looked up for empty content
Decode(content, charset) ==
    CASE content = <<>> -> Decoded(<<>>)
      [] charset = "utf-8" ->
            IF \E k \in DOMAIN content : IsInvalidAt(content, k)
            THEN Raised("UnicodeDecodeError") ELSE Decoded(Utf8Ignore(content, 1))
      [] charset = "ascii" ->
            IF \E k \in DOMAIN content : content[k] >= 128
            THEN Raised("UnicodeDecodeError") ELSE Decoded(content)
      [] charset = "latin-1" -> Decoded(content)
      [] OTHER -> Raised("LookupError")

\* the handlers of decode_content: "except UnicodeDecodeError" catches nothing else
Utf8OrIgnore(content, r) ==
    IF r.kind = "raise" /\ r.exc = "UnicodeDecodeError"
    THEN Decoded(Utf8Ignore(content, 1)) ELSE r

DeclaredOrUtf8(content, r) ==
    IF r.kind = "raise" /\ r.exc = "UnicodeDecodeError"
    THEN Utf8OrIgnore(content, Decode(content, "utf-8")) ELSE r

\* part.get_content_charset() or 'utf-8'; None is ""
CharsetOf(declared) == IF declared = "" THEN "utf-8" ELSE declared

decode_content(part) ==
    DeclaredOrUtf8(part.content, Decode(part.content, CharsetOf(part.charset)))

\* A, the two bytes of e-acute, and a byte that no UTF-8 text holds
PartBytes == <<65, 195, 169, 255>>

Charsets == {"", "utf-8", "ascii", "latin-1", "x-unknown"}

DecodeInit ==
    /\ \E c \in SeqsOf(PartBytes, MaxBytes), cs \in Charsets :
          dec = [pc |-> "call", part |-> [content |-> c, charset |-> cs],
                 result |-> Decoded(<<>>)]
    /\ subj = Off /\ rcpt = Off /\ fp = Off /\ dd = Off /\ rend = Off /\ rt = Off /\ rev = Off
    /\ seg = Off /\ batch = Off /\ gui = Off

DecodeContent ==
    /\ dec.pc = "call"
    /\ dec' = [dec EXCEPT !.pc = "done", !.result = decode_content(dec.part)]
    /\ UNCHANGED <<subj, rcpt, fp, dd, rend, rt, rev, seg, batch, gui>>

DecodeNext == DecodeContent

SpecDecode == DecodeInit /\ [][DecodeNext]_vars

\* C15 as stated: for every content and every declared charset, valid, invalid
\* for the bytes or unknown, decode_content returns a text and raises nothing.
C15_DecodeNeverRaises == dec.pc = "done" => dec.result.kind = "text"

(***************************************************************************)
(* Deduplication and the list given                                        *)
(***************************************************************************)

\* C16 as stated: deduplicate_emails leaves the list given and every field of
\* every record of it, the date included, as they were before the call.
C16_InputUnchanged == dd.pc # "call" => dd.emails = dd.given

(***************************************************************************)
(* read_md_email.py: render_obsidian_yaml and main                         *)
(***************************************************************************)

\* the date and time lines of a text that splits into parts at its spaces
RawDateLines(date_in, parts) ==
    IF Len(parts) >= 2
    THEN <<<<"d","a","t","e",":"," ">> \o parts[1], <<"t","i","m","e",":"," ">> \o parts[2]>>
    ELSE <<<<"d","a","t","e",":"," ">> \o date_in>>

\* date_part, time_part = email['date_out'].split(' ')
OutDateLines(parts) == <<<<"d","a","t","e",":"," ">> \o parts[1], <<"t","i","m","e",":"," ">> \o parts[2]>>

\* the lines appended for the date: from date_out, else from date_in, else none
MetaDateLines(email) ==
    IF email.date_out # <<>> THEN OutDateLines(SplitSet(email.date_out, {" "}))
    ELSE IF email.date_in # <<>> THEN RawDateLines(email.date_in, SplitSet(email.date_in, {" "}))
    ELSE <<>>

ListLines(recipients) == [k \in 1..Len(recipients) |-> <<" "," ","-"," ">> \o recipients[k]]

CcLines(cc_list) == IF cc_list = <<>> THEN <<>> ELSE <<<<"c","c",":">>>> \o ListLines(cc_list)

\* email['subject'].replace('"', '\\"')
QuoteEscaped(subject) ==
    Concat([k \in 1..Len(subject) |->
               IF subject[k] = "\"" THEN <<"\\", "\"">> ELSE <<subject[k]>>])

YamlLines(email) ==
    <<<<"-","-","-">>, <<"e","m","a","i","l","_","t","h","r","e","a","d",":">>, <<"a","l","i","a","s","e","s",":"," ","[","]">>, <<"t","y","p","e",":"," ","e","m","a","i","l">>, <<"t","a","g","s",":">>, <<" "," ","-"," ">>>>
    \o MetaDateLines(email)
    \o <<<<"s","e","n","d","e","r",":"," ">> \o email.from>>
    \o <<<<"t","o",":">>>> \o ListLines(email.to_list)
    \o CcLines(email.cc_list)
    \o <<<<"s","u","b","j","e","c","t",":"," ","\"">> \o QuoteEscaped(email.subject) \o <<"\"">>>>
    \o <<<<"-","-","-","\n">>>>

render_obsidian_yaml(email) == Join(<<"\n">>, YamlLines(email))

\* main: result
NoteOf(chosen) == render_obsidian_yaml(chosen) \o RStrip(chosen.content) \o <<"\n">>

(***************************************************************************)
(* Reverse path: a file is read and parsed, and a record chosen            *)
(***************************************************************************)

MaxSections == 3

\* what stands on the Date line of a section: two timestamps, nothing, texts
\* that are no timestamp, a timestamp written without the leading zeros
NoteDates ==
    << DateTime(<<2024, 1, 2, 10, 0, 0>>, 0), DateTime(<<2024, 1, 3, 9, 0, 0>>, 0), NoDate,
       DateStr(<<"T","u","e"," ","a","t"," ","5">>), DateStr(<<"s","o","o","n">>), DateStr(<<"2","0","2","4","-","1","-","2"," ","3",":","4",":","5">>) >>

NoteRecord(date) == Email(date, <<"a","@","x">>, <<"t","o">>, <<>>, <<"U","p">>, <<"h","i">>, <<>>)

\* a document whose sections stand in the order of the dates given
NoteDoc(dates) ==
    RenderInOrder([k \in 1..Len(dates) |-> NoteRecord(dates[k])], [k \in 1..Len(dates) |-> k])

NoteInit ==
    /\ \E l \in SeqsOf(NoteDates, MaxSections) :
          rev = [pc |-> "file", dates |-> l, md_text |-> NoteDoc(l), emails |-> <<>>,
                 sel |-> 0, yaml |-> <<>>, result |-> <<>>]
    /\ subj = Off /\ rcpt = Off /\ fp = Off /\ dd = Off /\ rend = Off /\ rt = Off /\ seg = Off
    /\ batch = Off /\ dec = Off /\ gui = Off

\* main, up to the prompt: the file is parsed; without records the program exits
Parsed(r, emails) ==
    [r EXCEPT !.emails = emails, !.pc = IF emails = <<>> THEN "exit" ELSE "prompt"]

ReadFile ==
    /\ rev.pc = "file"
    /\ rev' = Parsed(rev, parse_emails(rev.md_text))
    /\ UNCHANGED <<subj, rcpt, fp, dd, rend, rt, seg, batch, dec, gui>>

\* main, from the prompt on: an index of the list is entered
ChooseEmail ==
    /\ rev.pc = "prompt"
    /\ \E sel \in 1..Len(rev.emails) :
          rev' = [rev EXCEPT !.pc = "done", !.sel = sel,
                             !.yaml = YamlLines(rev.emails[sel]),
                             !.result = NoteOf(rev.emails[sel])]
    /\ UNCHANGED <<subj, rcpt, fp, dd, rend, rt, seg, batch, dec, gui>>

NoteNext == ReadFile \/ ChooseEmail

SpecNote == NoteInit /\ [][NoteNext]_vars

\* text is of the shape YYYY-MM-DD HH:MM:SS
IsExactFormat(text) ==
    /\ Len(text) = 19
    /\ \A k \in 1..19 :
          CASE k \in {5, 8} -> text[k] = "-"
            [] k = 11 -> text[k] = " "
            [] k \in {14, 17} -> text[k] = ":"
            [] OTHER -> text[k] \in DigitSet

BeginsWith(line, prefix) ==
    Len(line) >= Len(prefix) /\ SubSeq(line, 1, Len(prefix)) = prefix

\* the block holds a date: or a time: line
HasDateLines(yaml) ==
    \E k \in DOMAIN yaml : BeginsWith(yaml[k], <<"d","a","t","e",":"," ">>) \/ BeginsWith(yaml[k], <<"t","i","m","e",":"," ">>)

\* C17 as stated: a Date text is parsed only when it is exactly of the shape
\* YYYY-MM-DD HH:MM:SS; any other text is kept raw, and the metadata block has
\* date: and time: lines only for a date that was parsed.
C17_DateLinesOnlyFromParsed ==
    rev.pc = "done" =>
        /\ rev.emails[rev.sel].date.kind = "datetime" => IsExactFormat(rev.emails[rev.sel].date_in)
        /\ HasDateLines(rev.yaml) => rev.emails[rev.sel].date.kind = "datetime"

(***************************************************************************)
(* Reverse path: the order of the records parsed                           *)
(***************************************************************************)

\* what the Date line of a section says, nothing when there is none
DateTextOf(date) ==
    CASE date.kind = "datetime" -> StrfTime(date.dt)
      [] date.kind = "str" -> date.text
      [] OTHER -> <<>>

\* the positions of a list of records whose date_in is text
WithDateIn(emails, text) == {k \in DOMAIN emails : emails[k].date_in = text}

\* the positions of the sections whose Date line says text
WithDateText(dates, text) == {k \in DOMAIN dates : DateTextOf(dates[k]) = text}

\* C18: whatever the order of the sections in the document, parse_emails
\* returns one record for each section, the records with a parsed date first,
\* from the newest to the oldest, and after them the records without one.
C18_NewestFirstUndatedLast ==
    rev.pc \in {"prompt", "done", "exit"} =>
        /\ Len(rev.emails) = Len(rev.dates)
        /\ \A k \in DOMAIN rev.dates :
              Cardinality(WithDateIn(rev.emails, DateTextOf(rev.dates[k])))
                  = Cardinality(WithDateText(rev.dates, DateTextOf(rev.dates[k])))
        /\ \A i, j \in DOMAIN rev.emails :
              i < j =>
                  /\ rev.emails[j].date.kind = "datetime" => rev.emails[i].date.kind = "datetime"
                  /\ rev.emails[i].date.kind = "datetime" /\ rev.emails[j].date.kind = "datetime"
                        => ~DateLess(rev.emails[i].date, rev.emails[j].date)

\* a document whose sections are one without a parseable date, an older and a
\* newer one, in this order, has been parsed into newer, older, undated
C18_Witness ==
    /\ rev.pc = "prompt"
    /\ Len(rev.dates) = 3
    /\ rev.dates[1].kind = "str"
    /\ rev.dates[2].kind = "datetime" /\ rev.dates[3].kind = "datetime"
    /\ DateLess(rev.dates[2], rev.dates[3])
    /\ rev.emails[1].date = rev.dates[3]
    /\ rev.emails[2].date = rev.dates[2]
    /\ rev.emails[3].date.kind = "none" /\ rev.emails[3].date_in = rev.dates[1].text

(***************************************************************************)
(* Deduplication: which records are kept                                   *)
(***************************************************************************)

\* email is none of the records kept
Discarded(email, out) == \A j \in DOMAIN out : out[j] # email

\* kept is within threshold of email and at least as recent, a record without
\* timestamp being older than every timestamp
Represents(kept, email, threshold) ==
    /\ hamming_distance(email_feature_hash(kept), email_feature_hash(email)) <= threshold
    /\ ~DateLess(DateKey(kept), DateKey(email))

\* C19: the records kept by deduplicate_emails stand from the most recent to
\* the oldest, those without timestamp last; every record discarded is within
\* threshold of a record kept that is at least as recent; and the first record
\* kept is as recent as every record of the list.
C19_GreedyByRecency ==
    dd.pc = "deduped" =>
        /\ \A i, j \in DOMAIN dd.out : i < j => ~DateLess(DateKey(dd.out[i]), DateKey(dd.out[j]))
        /\ \A k \in DOMAIN dd.emails :
              Discarded(dd.emails[k], dd.out) =>
                  \E j \in DOMAIN dd.out : Represents(dd.out[j], dd.emails[k], dd.threshold)
        /\ dd.emails # <<>> =>
              /\ dd.out # <<>>
              /\ \A k \in DOMAIN dd.emails : ~DateLess(DateKey(dd.out[1]), DateKey(dd.emails[k]))

\* of three records given from the oldest to the most recent, the most recent
\* is kept first and another, not the same text, is discarded
C19_Witness ==
    /\ dd.pc = "deduped"
    /\ Len(dd.given) = 3
    /\ DateLess(DateKey(dd.emails[1]), DateKey(dd.emails[3]))
    /\ dd.out[1] = dd.emails[3]
    /\ Len(dd.out) = 2
    /\ \E k \in 1..2 :
          /\ dd.emails[k] \notin {dd.out[1], dd.out[2]}
          /\ hamming_distance(email_feature_hash(dd.out[1]), email_feature_hash(dd.emails[k])) > 0
          /\ Represents(dd.out[1], dd.emails[k], dd.threshold)

(***************************************************************************)
(* Deduplication: chains of records                                        *)
(***************************************************************************)

\* the entries a, b, c of hashes are a chain: b is within threshold of a and
\* of c, and a and c are farther apart
Chain(hashes, threshold, a, b, c) ==
    /\ hamming_distance(hashes[a], hashes[b]) <= threshold
    /\ hamming_distance(hashes[b], hashes[c]) <= threshold
    /\ hamming_distance(hashes[a], hashes[c]) > threshold

\* the record at position b is the one the loop visits first: it is the most
\* recent, and the first in the list of those as recent
VisitedFirst(emails, b) ==
    \A k \in DOMAIN emails :
        k # b =>
            \/ DateLess(DateKey(emails[k]), DateKey(emails[b]))
            \/ DateKey(emails[k]) = DateKey(emails[b]) /\ b < k

\* the chains <<a, b, c>> of the list
ChainsOf(emails, threshold) ==
    UNION {{t \in (DOMAIN emails) \X (DOMAIN emails) \X (DOMAIN emails) :
               Chain(hashes, threshold, t[1], t[2], t[3])} : hashes \in {EmailHashes(emails)}}

\* C20: when the record visited first is the middle of a chain, both ends are
\* absorbed into it although they are farther apart than the threshold; the
\* merge goes no further than that: when an end of a chain of three records is
\* visited first, it absorbs the middle and the other end is kept.
C20_ChainAbsorbedByMiddle ==
    dd.pc = "deduped" =>
        \A t \in ChainsOf(dd.emails, dd.threshold) :
            /\ VisitedFirst(dd.emails, t[2]) =>
                  /\ dd.out[1] = dd.emails[t[2]]
                  /\ Discarded(dd.emails[t[1]], dd.out)
                  /\ Discarded(dd.emails[t[3]], dd.out)
            /\ Len(dd.emails) = 3 /\ VisitedFirst(dd.emails, t[1]) =>
                  dd.out = <<dd.emails[t[1]], dd.emails[t[3]]>>

\* three records, the first within threshold of the two others, which are
\* farther apart than the threshold, have been merged into the first
C20_Witness ==
    /\ dd.pc = "deduped"
    /\ Len(dd.emails) = 3
    /\ <<2, 1, 3>> \in ChainsOf(dd.emails, dd.threshold)
    /\ VisitedFirst(dd.emails, 1)
    /\ dd.out = <<dd.emails[1]>>

(***************************************************************************)
(* eml2md.py: extract_email_parts on the parts of a message                *)
(***************************************************************************)

\* a part of a parsed message: its content type, the text of its
\* Content-Disposition header ("" when it has none), get_filename() (<<>> for
\* None), its decoded payload (ASCII text here, which decode_content returns
\* as it is), its sub-parts (for message/rfc822 the one message it holds), and
\* the headers of a message as extract_email_parts reads them
MsgPart(content_type, disposition, filename, payload, parts, headers) ==
    [content_type |-> content_type, disposition |-> disposition, filename |-> filename,
     payload |-> payload, parts |-> parts, headers |-> headers]

\* msg.walk(): the part, then the parts below it, depth first
RECURSIVE Walk(_)
Walk(part) == <<part>> \o Concat([k \in 1..Len(part.parts) |-> Walk(part.parts[k])])

\* 'attachment' not in content_disposition
NotAttachment(part) == StrFind(part.disposition, <<"a","t","t","a","c","h","m","e","n","t">>) < 0

\* re.sub(r'<[^>]+>', '', html_content)
RE_tag == Lit(<<"<">>) \o <<NRep({">"}, 1)>> \o Lit(<<">">>)

StripTags(html_content) == ReSub(RE_tag, <<>>, -1, html_content)

\* part.get_payload(decode=True): None (<<>>) for a part that has sub-parts
PayloadOf(part) == IF part.parts # <<>> THEN <<>> ELSE part.payload

\* the attachments branch: a part without filename, or without content, adds nothing
WithAttachment(acc, part) ==
    IF part.filename # <<>> /\ PayloadOf(part) # <<>>
    THEN [acc EXCEPT !.attachments =
              Append(@, <<part.filename, PayloadOf(part), part.content_type>>)]
    ELSE acc

\* one turn of the loop over msg.walk(): acc holds body_text and attachments
WalkStep(acc, part) ==
    IF part.content_type = "text/plain" /\ NotAttachment(part)
    THEN [acc EXCEPT !.body_text = @ \o part.payload]
    ELSE IF part.content_type = "text/html" /\ NotAttachment(part) /\ acc.body_text = <<>>
    THEN [acc EXCEPT !.body_text = @ \o StripTags(part.payload)]
    ELSE IF ~NotAttachment(part) \/ part.filename # <<>>
    THEN WithAttachment(acc, part)
    ELSE acc

RECURSIVE WalkLoop(_, _, _)
WalkLoop(parts, k, acc) ==
    IF k > Len(parts) THEN acc ELSE WalkLoop(parts, k + 1, WalkStep(acc, parts[k]))

\* the dict returned, from the headers and the result of the loop
ExtractedOf(headers, acc) ==
    Email(headers.date, headers.from, headers.to, headers.cc, headers.subject,
          acc.body_text, acc.attachments)

extract_email_parts(msg) ==
    ExtractedOf(msg.headers, WalkLoop(Walk(msg), 1, [body_text |-> <<>>, attachments |-> <<>>]))

(***************************************************************************)
(* eml2md.py: process_eml_file, the two ways to find the emails of a file  *)
(***************************************************************************)

IsRfc822(part) == part.content_type = "message/rfc822"

\* a condition that takes every multipart container
IsForwardedThread_any_multipart(msg) ==
    /\ msg.content_type \in {"multipart/mixed", "multipart/related", "multipart/alternative"}
    /\ \E k \in DOMAIN Walk(msg) : IsRfc822(Walk(msg)[k])

\* the condition of the message/rfc822 method
IsForwardedThread(msg) ==
    /\ msg.content_type = "multipart/mixed"
    /\ \E k \in DOMAIN Walk(msg) : IsRfc822(Walk(msg)[k])

\* the records of the messages in the payloads of the message/rfc822 parts
EmbeddedOf(rfc822_parts) ==
    Concat([k \in 1..Len(rfc822_parts) |->
               [j \in 1..Len(rfc822_parts[k].parts) |->
                   extract_email_parts(rfc822_parts[k].parts[j])]])

EmbeddedEmails(msg) == EmbeddedOf(SelectSeq(Walk(msg), IsRfc822))

\* emails before deduplication
EmailsOf(msg) ==
    SegmentedEmails(extract_email_parts(msg),
                    IF IsForwardedThread(msg) THEN EmbeddedEmails(msg) ELSE <<>>)

(***************************************************************************)
(* A parsed file: a message and its parts                                  *)
(***************************************************************************)

MaxParts == 3

NoHeaders == [date |-> NoDate, from |-> <<>>, to |-> <<>>, cc |-> <<>>, subject |-> <<>>]

\* the headers of MainEmail and of EmbeddedEmail
MainHeaders ==
    [date |-> DateTime(<<2024, 1, 3, 9, 0, 0>>, 0), from |-> <<"m","@","x">>, to |-> <<"t","o">>, cc |-> <<>>,
     subject |-> <<"U","p">>]

EmbeddedHeaders ==
    [date |-> DateTime(<<2024, 1, 1, 8, 0, 0>>, 0), from |-> <<"e","@","x">>, to |-> <<"m","@","x">>, cc |-> <<>>,
     subject |-> <<"U","p">>]

Leaf(content_type, disposition, filename, payload) ==
    MsgPart(content_type, disposition, filename, payload, <<>>, NoHeaders)

\* a forwarded message of one text part, and the message/rfc822 part that holds it
EmbeddedMsg == MsgPart("text/plain", <<>>, <<>>, <<"o","l","d">>, <<>>, EmbeddedHeaders)

Rfc822Part(msg) == MsgPart("message/rfc822", <<>>, <<>>, <<>>, <<msg>>, NoHeaders)

\* a forwarded message that holds a text and, again, a forwarded message
NestedMsg ==
    MsgPart("multipart/mixed", <<>>, <<>>, <<>>,
            <<Leaf("text/plain", <<>>, <<>>, <<"f","w","\n">>), Rfc822Part(EmbeddedMsg)>>,
            [EmbeddedHeaders EXCEPT !.from = <<"n","@","x">>])

\* the parts a container is made of: a text, a text with a quoted reply, an
\* HTML text, a text shown inline that has a file name, a file attached, a
\* part marked as attachment that has no file name, forwarded messages
PartPool ==
    << Leaf("text/plain", <<>>, <<>>, PlainText),
       Leaf("text/plain", <<>>, <<>>, WroteHeader \o <<"o","k","\n">>),
       Leaf("text/html", <<>>, <<>>, <<"<","b",">","y","o","<","/","b",">","\n">>),
       Leaf("text/plain", <<"i","n","l","i","n","e",";"," ","f","i","l","e","n","a","m","e","=","\"","i",".","t","x","t","\"">>, <<"i",".","t","x","t">>, <<"i","n","\n">>),
       Leaf("application/pdf", <<"a","t","t","a","c","h","m","e","n","t",";"," ","f","i","l","e","n","a","m","e","=","\"","f",".","p","d","f","\"">>, <<"f",".","p","d","f">>, <<"%","P","D","F">>),
       Leaf("text/html", <<"a","t","t","a","c","h","m","e","n","t">>, <<>>, <<"<","i",">","x","<","/","i",">">>),
       Rfc822Part(EmbeddedMsg),
       Rfc822Part(NestedMsg) >>

\* the content types of a file: containers, and messages of one part
ContainerTypes == {"multipart/mixed", "multipart/related"}

ParsedFiles ==
    {MsgPart(ct, <<>>, <<>>, <<>>, ps, MainHeaders) :
        ct \in ContainerTypes, ps \in SeqsOf(PartPool, MaxParts) \ {<<>>}}
    \cup {[PartPool[k] EXCEPT !.headers = MainHeaders] : k \in 1..6}

ContainerInit ==
    /\ \E msg \in ParsedFiles :
          seg = [pc |-> "parsed", msg |-> msg, emails |-> <<>>]
    /\ subj = Off /\ rcpt = Off /\ fp = Off /\ dd = Off /\ rend = Off /\ rt = Off /\ rev = Off
    /\ batch = Off /\ dec = Off /\ gui = Off

\* process_eml_file from the parsed file to the list emails
FindEmails ==
    /\ seg.pc = "parsed"
    /\ seg' = [seg EXCEPT !.pc = "found", !.emails = EmailsOf(seg.msg)]
    /\ UNCHANGED <<subj, rcpt, fp, dd, rend, rt, rev, batch, dec, gui>>

ContainerNext == FindEmails

SpecContainer == ContainerInit /\ [][ContainerNext]_vars

\* the message/rfc822 parts of a file in their order of appearance, and the
\* messages they hold
Rfc822Parts(msg) == SelectSeq(Walk(msg), IsRfc822)

\* a text part of the body that quotes a reply under an "On ... wrote:" header
IsQuoting(part) == part.content_type = "text/plain" /\ part.payload = WroteHeader \o <<"o","k","\n">>

QuotedCount(msg) == Len(SelectSeq(Walk(msg), IsQuoting))

\* emails is the record of the file followed by one record for each embedded
\* message, in the order of appearance
ExplicitThread(msg, emails) ==
    /\ Len(emails) = 1 + Len(Rfc822Parts(msg))
    /\ \A k \in DOMAIN Rfc822Parts(msg) :
          /\ emails[1 + k].from = Rfc822Parts(msg)[k].parts[1].headers.from
          /\ emails[1 + k].to = Rfc822Parts(msg)[k].parts[1].headers.to
          /\ emails[1 + k].date = Rfc822Parts(msg)[k].parts[1].headers.date

\* emails is the record of the file followed by one record for each quoted
\* header of its body
HeuristicThread(msg, emails) ==
    /\ Len(emails) = 1 + QuotedCount(msg)
    /\ \A k \in 2..Len(emails) : emails[k].to = <<>> /\ emails[k].date.kind = "str"

IsMultipart(msg) == msg.content_type \in ContainerTypes

FromOutlookBlock(email) == email.to = <<"b">>

FromWroteHeader(email) == email.to = <<>> /\ email.cc = <<>>

\* C22: the segments of a body all come from one style, the first in the order
\* From/Sent block, "On ... wrote:" that has a match: with a From/Sent block in
\* the body every segment is one of these blocks, whatever "On ... wrote:"
\* headers stand beside them; without any header the file is one message.
C22_OneStyle ==
    SegmentedHeuristically =>
        /\ SelectSeq(seg.pieces, IsOutlook) # <<>> =>
              /\ Len(seg.emails) = 1 + Len(SelectSeq(seg.pieces, IsOutlook))
              /\ \A k \in 2..Len(seg.emails) : FromOutlookBlock(seg.emails[k])
        /\ SelectSeq(seg.pieces, IsOutlook) = <<>> =>
              /\ Len(seg.emails) = 1 + Len(SelectSeq(seg.pieces, IsWrote))
              /\ \A k \in 2..Len(seg.emails) : FromWroteHeader(seg.emails[k])
        /\ SelectSeq(seg.pieces, IsOutlook) = <<>> /\ SelectSeq(seg.pieces, IsWrote) = <<>> =>
              seg.emails = <<seg.main_email>>

\* a body with an "On ... wrote:" header between two From/Sent blocks has
\* given the two blocks and nothing else
C22_Witness ==
    /\ SegmentedHeuristically
    /\ Len(seg.pieces) = 3
    /\ IsOutlook(seg.pieces[1]) /\ IsWrote(seg.pieces[2]) /\ IsOutlook(seg.pieces[3])
    /\ Len(seg.emails) = 3
    /\ FromOutlookBlock(seg.emails[2]) /\ FromOutlookBlock(seg.emails[3])

(***************************************************************************)
(* Segmentation: the bodies of the segments                                *)
(***************************************************************************)

\* the positions in ps of the headers of the winning style, in text order
WinningPositions(ps) ==
    Ascending({p \in DOMAIN ps :
                  IF SelectSeq(ps, IsOutlook) # <<>> THEN IsOutlook(ps[p]) ELSE IsWrote(ps[p])})

\* the position of the first header of any style after position p, past the
\* end when there is none
NextHeader(ps, p) ==
    SetMin({q \in (p + 1)..Len(ps) : IsOutlook(ps[q]) \/ IsWrote(ps[q])} \cup {Len(ps) + 1})

\* the text between the header at position p and the next header, trimmed
TextAfter(ps, p) == Strip(BodyOf(SubSeq(ps, p + 1, NextHeader(ps, p) - 1)))

\* C23: the body of each segment is the text from the end of its header to the
\* start of the next header of any style, or to the end of the text, trimmed;
\* so it holds no header, and the bodies are slices of the text that follow
\* one another.
C23_BodyUpToNextHeader ==
    SegmentedHeuristically =>
        \A i \in DOMAIN WinningPositions(seg.pieces) :
            /\ seg.emails[1 + i].body = TextAfter(seg.pieces, WinningPositions(seg.pieces)[i])
            /\ StrFind(seg.emails[1 + i].body, <<"w","r","o","t","e",":">>) < 0
            /\ StrFind(seg.emails[1 + i].body, <<"F","r","o","m",":">>) < 0

\* the body of a From/Sent block ends where an "On ... wrote:" header begins,
\* although that style gives no segment
C23_Witness ==
    /\ SegmentedHeuristically
    /\ Len(seg.pieces) = 3
    /\ IsOutlook(seg.pieces[1]) /\ seg.pieces[2] = 1 /\ IsWrote(seg.pieces[3])
    /\ Len(seg.emails) = 2
    /\ seg.emails[2].body = <<"h","i">>

(***************************************************************************)
(* Segmentation: the subject of the segments                               *)
(***************************************************************************)

\* the subject on the Subject line of the From/Sent block that is piece k
HeaderSubject(k) == IF k = 2 THEN <<"s">> ELSE <<"t">>

\* C24 as stated: a segment of an "On ... wrote:" header, which carries no
\* subject, has the subject of the main email; a segment of a From/Sent block
\* has the subject of its Subject line.
C24_SubjectInherited ==
    SegmentedHeuristically =>
        \A i \in DOMAIN WinningPositions(seg.pieces) :
            seg.emails[1 + i].subject =
                IF IsWrote(seg.pieces[WinningPositions(seg.pieces)[i]])
                THEN seg.main_email.subject
                ELSE HeaderSubject(seg.pieces[WinningPositions(seg.pieces)[i]])

(***************************************************************************)
(* Segmentation: the fields of an "On ... wrote:" segment                  *)
(***************************************************************************)

\* the date and the name that the "On ... wrote:" header of piece k states
HeaderDate(k) == IF k = 4 THEN <<"M","o","n">> ELSE <<"T","u","e"," ","a","t"," ","5">>

HeaderName(k) == IF k = 4 THEN <<"A","l">> ELSE <<"B","o">>

\* C25 as stated: the segment of a header "On <date>, <name> wrote:" has the
\* name as its from field, never the date text, and its date is taken from
\* the date part of the header.
C25_FromIsName ==
    SegmentedHeuristically /\ SelectSeq(seg.pieces, IsOutlook) = <<>> =>
        \A i \in DOMAIN WinningPositions(seg.pieces) :
            /\ seg.emails[1 + i].from = HeaderName(seg.pieces[WinningPositions(seg.pieces)[i]])
            /\ seg.emails[1 + i].from # HeaderDate(seg.pieces[WinningPositions(seg.pieces)[i]])
            /\ seg.emails[1 + i].date.text = HeaderDate(seg.pieces[WinningPositions(seg.pieces)[i]])

(***************************************************************************)
(* The body and the attachments of a file                                  *)
(***************************************************************************)

IsPlainText(part) == part.content_type = "text/plain" /\ NotAttachment(part)

IsHtmlText(part) == part.content_type = "text/html" /\ NotAttachment(part)

PayloadsOf(parts) == Concat([k \in 1..Len(parts) |-> parts[k].payload])

StrippedOf(parts) == Concat([k \in 1..Len(parts) |-> StripTags(parts[k].payload)])

\* C26 as stated: the body is the concatenation of all text/plain parts that
\* are no attachments when there is one, whatever the order of the parts, and
\* otherwise the concatenation of all text/html parts that are no attachments,
\* their tags removed.
C26_PlainElseHtml ==
    seg.pc = "found" =>
        seg.emails[1].body =
            IF SelectSeq(Walk(seg.msg), IsPlainText) # <<>>
            THEN PayloadsOf(SelectSeq(Walk(seg.msg), IsPlainText))
            ELSE StrippedOf(SelectSeq(Walk(seg.msg), IsHtmlText))

\* the disposition of the part says attachment, or the part carries a file name
IsAttachmentPart(part) == ~NotAttachment(part) \/ part.filename # <<>>

Recorded(parts) ==
    [k \in 1..Len(parts) |-> <<parts[k].filename, parts[k].payload, parts[k].content_type>>]

\* C27 as stated: every part whose disposition says attachment, and every part
\* that carries a file name, whatever its disposition and its content type, is
\* recorded as an attachment with its bytes, in the order of the parts.
C27_AttachmentsRecorded ==
    seg.pc = "found" =>
        seg.emails[1].attachments = Recorded(SelectSeq(Walk(seg.msg), IsAttachmentPart))

(***************************************************************************)
(* The range of the SimHash fingerprints                                   *)
(***************************************************************************)

MaxRangeWords == 2

\* texts of no word: the empty text and texts of white space only
BlankTexts == {<<>>, <<" ">>, <<"\n", "\t">>}

RangeTexts == {Join(<<" ">>, ws) : ws \in SeqsOf(SimWords, MaxRangeWords)} \cup BlankTexts

RangeInit ==
    /\ \E a \in RangeTexts : \E b \in RangeTexts :
          fp = [pc |-> "range", a |-> a, b |-> b, ha |-> {}, hb |-> {}, distance |-> -1]
    /\ subj = Off /\ rcpt = Off /\ dd = Off /\ rend = Off /\ rt = Off /\ rev = Off /\ seg = Off
    /\ batch = Off /\ dec = Off /\ gui = Off

Hashed(r, ha, hb) ==
    [r EXCEPT !.pc = "hashed", !.ha = ha, !.hb = hb, !.distance = hamming_distance(ha, hb)]

\* simhash(a), simhash(b) and hamming_distance of the two
RangeHash ==
    /\ fp.pc = "range"
    /\ fp' = Hashed(fp, simhash(fp.a), simhash(fp.b))
    /\ UNCHANGED <<subj, rcpt, dd, rend, rt, rev, seg, batch, dec, gui>>

RangeNext == RangeHash

SpecRange == RangeInit /\ [][RangeNext]_vars

\* the bits of a 32-bit value
Low32 == 0..31

\* C28: every fingerprint has its bits 32..63 clear, which is to say that it
\* is below 2^32; the fingerprint of a text of no word is 0; and two
\* fingerprints are at a Hamming distance of at most 32.
C28_FingerprintBelow32Bits ==
    fp.pc = "hashed" =>
        /\ fp.ha \subseteq Low32 /\ fp.hb \subseteq Low32
        /\ Words(fp.a) = <<>> => fp.ha = {}
        /\ Words(fp.b) = <<>> => fp.hb = {}
        /\ fp.distance <= 32

\* a text of no word and a text of words have been hashed, the second to a
\* fingerprint that is not 0
C28_Witness ==
    /\ fp.pc = "hashed"
    /\ Words(fp.a) = <<>> /\ fp.a # <<>>
    /\ Words(fp.b) # <<>> /\ fp.hb # {}
    /\ fp.distance > 0

(***************************************************************************)
(* Deduplication: the loop of deduplicate_emails, one index at a time      *)
(***************************************************************************)

\* email_hashes after the sort: the records, normalized, with their hashes
SortedPairs(normal, hashes, order) ==
    [k \in 1..Len(order) |-> [email |-> normal[order[k]], hash |-> hashes[order[k]]]]

HashesOf(email_hashes) == [k \in 1..Len(email_hashes) |-> email_hashes[k].hash]

LoopInit ==
    /\ \E l \in SeqsOf(DdRecords, MaxEmails), t \in Thresholds :
          dd = [pc |-> "call", emails |-> l, threshold |-> t, email_hashes |-> <<>>,
                i |-> 0, used_indices |-> {}, unique_emails |-> <<>>]
    /\ subj = Off /\ rcpt = Off /\ fp = Off /\ rend = Off /\ rt = Off /\ rev = Off /\ seg = Off
    /\ batch = Off /\ dec = Off /\ gui = Off

\* an empty list is returned at once
ReturnEmpty ==
    /\ dd.pc = "call" /\ dd.emails = <<>>
    /\ dd' = [dd EXCEPT !.pc = "returned"]
    /\ UNCHANGED <<subj, rcpt, fp, rend, rt, rev, seg, batch, dec, gui>>

Entered(r, normal) ==
    [r EXCEPT !.pc = "loop", !.emails = normal, !.i = 1,
              !.email_hashes = SortedPairs(normal, EmailHashes(normal),
                                           SortOrder(DateKeys(normal), TRUE))]

\* the dates are normalized, the hashes calculated and sorted; the loop is
\* entered at its first index (the indices are counted from 1)
EnterLoop ==
    /\ dd.pc = "call" /\ dd.emails # <<>>
    /\ dd' = Entered(dd, NormalizeDates(dd.emails))
    /\ UNCHANGED <<subj, rcpt, fp, rend, rt, rev, seg, batch, dec, gui>>

\* index i is in used_indices: continue
SkipIndex ==
    /\ dd.pc = "loop" /\ dd.i <= Len(dd.email_hashes)
    /\ dd.i \in dd.used_indices
    /\ dd' = [dd EXCEPT !.i = dd.i + 1]
    /\ UNCHANGED <<subj, rcpt, fp, rend, rt, rev, seg, batch, dec, gui>>

\* index i is not in used_indices: its record is appended, i and the indices
\* the inner loop finds similar are added to used_indices
KeepIndex ==
    /\ dd.pc = "loop" /\ dd.i <= Len(dd.email_hashes)
    /\ dd.i \notin dd.used_indices
    /\ dd' = [dd EXCEPT !.i = dd.i + 1,
                        !.unique_emails = Append(dd.unique_emails, dd.i),
                        !.used_indices =
                            dd.used_indices \cup {dd.i}
                                \cup Similar(HashesOf(dd.email_hashes), dd.threshold,
                                             dd.i, dd.used_indices)]
    /\ UNCHANGED <<subj, rcpt, fp, rend, rt, rev, seg, batch, dec, gui>>

\* the loop is over: unique_emails is returned
ReturnUnique ==
    /\ dd.pc = "loop" /\ dd.i > Len(dd.email_hashes)
    /\ dd' = [dd EXCEPT !.pc = "returned"]
    /\ UNCHANGED <<subj, rcpt, fp, rend, rt, rev, seg, batch, dec, gui>>

LoopNext == ReturnEmpty \/ EnterLoop \/ SkipIndex \/ KeepIndex \/ ReturnUnique

SpecLoop == LoopInit /\ [][LoopNext]_vars

\* C29: two records that survive, at distinct indices, have fingerprints at a
\* Hamming distance greater than the threshold; and when index i is visited
\* every index below i is in used_indices.
C29_SurvivorsApart ==
    /\ dd.pc = "returned" =>
          \A j, k \in DOMAIN dd.unique_emails :
              j # k => hamming_distance(dd.email_hashes[dd.unique_emails[j]].hash,
                                        dd.email_hashes[dd.unique_emails[k]].hash)
                           > dd.threshold
    /\ dd.pc = "loop" => \A k \in 1..(dd.i - 1) : k \in dd.used_indices

\* of three records, one has been absorbed at a positive threshold and two
\* have survived
C29_Witness ==
    /\ dd.pc = "returned"
    /\ Len(dd.email_hashes) = 3
    /\ Len(dd.unique_emails) = 2
    /\ dd.threshold = 4
    /\ dd.used_indices = 1..3

(***************************************************************************)
(* gui_launcher.py: GUILauncher.run, called directly or through main       *)
(***************************************************************************)

\* the methods of class GUILauncher: the def lines of the class. The lines
\* that search for a browser (60-87) have no def line of their own; they are
\* statements of start_tkinter_gui that follow its return statements.
GUILauncherMethods ==
    {"__init__", "log", "check_port_available", "start_tkinter_gui", "start_server",
     "open_browser", "monitor_browser", "cleanup", "run"}

\* what happens when the Tkinter GUI is started: gui_tkinter cannot be
\* imported, its main fails, or the window is used and closed
TkOutcomes == {"import_error", "error", "closed"}

\* start_tkinter_gui: the exit code it returns
start_tkinter_gui(outcome) == IF outcome = "closed" THEN 0 ELSE 1

\* cleanup: a server process that is running is terminated, and killed when
\* it does not stop in time
cleanup(server) == IF server = "running" THEN "terminated" ELSE server

\* run() ends by a return
Returned(g, code) == [g EXCEPT !.pc = "ended", !.end = "return", !.code = code]

\* run() ends by an exception
RaisedOut(g, exception) == [g EXCEPT !.pc = "ended", !.end = exception]

\* the launcher after __init__, and what it will meet: whether port 8000 can
\* be bound, whether app.py is there, whether the server can be spawned and
\* whether it is alive two seconds later, and how the Tkinter GUI fares
LauncherInit ==
    /\ \E force \in BOOLEAN, main \in BOOLEAN, port \in BOOLEAN, app \in BOOLEAN,
          spawn \in BOOLEAN, alive \in BOOLEAN, tk \in TkOutcomes :
          gui = [pc |-> "run", force_tkinter |-> force, through_main |-> main,
                 port_available |-> port, app_exists |-> app, spawns |-> spawn,
                 stays_alive |-> alive, tk_outcome |-> tk,
                 server |-> "none", browser |-> "none", tkinter |-> FALSE,
                 end |-> "none", code |-> -1]
    /\ subj = Off /\ rcpt = Off /\ fp = Off /\ dd = Off /\ rend = Off /\ rt = Off /\ rev = Off
    /\ seg = Off /\ batch = Off /\ dec = Off

TkinterStarted(g) == Returned([g EXCEPT !.tkinter = TRUE], start_tkinter_gui(g.tk_outcome))

\* force_tkinter is set: the Tkinter GUI is started
ForcedTkinter ==
    /\ gui.pc = "run" /\ gui.force_tkinter
    /\ gui' = TkinterStarted(gui)
    /\ UNCHANGED <<subj, rcpt, fp, dd, rend, rt, rev, seg, batch, dec>>

\* port 8000 cannot be bound: the Tkinter GUI is started
PortTaken ==
    /\ gui.pc = "run" /\ ~gui.force_tkinter /\ ~gui.port_available
    /\ gui' = TkinterStarted(gui)
    /\ UNCHANGED <<subj, rcpt, fp, dd, rend, rt, rev, seg, batch, dec>>

\* the server process after start_server: none without app.py or when Popen
\* raises; else spawned, and found running or exited by poll()
ServerAfterStart(g) ==
    IF ~g.app_exists \/ ~g.spawns THEN "none"
    ELSE IF g.stays_alive THEN "running" ELSE "exited"

\* start_server
StartServer ==
    /\ gui.pc = "run" /\ ~gui.force_tkinter /\ gui.port_available
    /\ gui' = [gui EXCEPT !.server = ServerAfterStart(gui),
                          !.pc = IF ServerAfterStart(gui) = "running"
                                 THEN "server_started" ELSE "server_failed"]
    /\ UNCHANGED <<subj, rcpt, fp, dd, rend, rt, rev, seg, batch, dec>>

\* start_server returned False: the Tkinter GUI is started
ServerFailed ==
    /\ gui.pc = "server_failed"
    /\ gui' = TkinterStarted(gui)
    /\ UNCHANGED <<subj, rcpt, fp, dd, rend, rt, rev, seg, batch, dec>>

\* the server process ends by itself
ServerExits ==
    /\ gui.pc = "server_started" /\ gui.server = "running"
    /\ gui' = [gui EXCEPT !.server = "exited"]
    /\ UNCHANGED <<subj, rcpt, fp, dd, rend, rt, rev, seg, batch, dec>>

\* open_browser: its first statement calls self.find_chromium_browser(),
\* which is no attribute of the launcher; the AttributeError is raised
\* before the try statement of open_browser and outside that of run()
OpenBrowser ==
    /\ gui.pc = "server_started"
    /\ "find_chromium_browser" \notin GUILauncherMethods
    /\ gui' = RaisedOut([gui EXCEPT !.browser = "failed"], "AttributeError")
    /\ UNCHANGED <<subj, rcpt, fp, dd, rend, rt, rev, seg, batch, dec>>

\* SIGINT or SIGTERM while run() is under way, called through main: the
\* handler calls cleanup() and sys.exit(0)
Signal ==
    /\ gui.pc # "ended" /\ gui.through_main
    /\ gui' = RaisedOut([gui EXCEPT !.server = cleanup(gui.server)], "SystemExit")
    /\ UNCHANGED <<subj, rcpt, fp, dd, rend, rt, rev, seg, batch, dec>>

LauncherNext ==
    ForcedTkinter \/ PortTaken \/ StartServer \/ ServerFailed \/ ServerExits \/ OpenBrowser
        \/ Signal

SpecLauncher == LauncherInit /\ [][LauncherNext]_vars

\* C30 as stated: when the server has been started and no browser could be
\* opened, run() has, when it ends, terminated the server and started the
\* Tkinter GUI; and run() never ends, by return or by exception, while a
\* server process it started is running.
C30_NoServerLeftRunning ==
    gui.pc = "ended" =>
        /\ gui.server # "running"
        /\ gui.browser = "failed" => gui.tkinter /\ gui.server \in {"terminated", "exited"}

====
